---- MODULE Spec2Model ----
(***************************************************************************)
(* eniGOma: a configurable, Unicode-capable Enigma machine.                *)
(*                                                                         *)
(* The model follows the Go sources: alphabet, rotor, reflector and        *)
(* plugboard are records with the fields of the Go structs; every Go       *)
(* function is an operator that returns a record [ok, ...] where the Go    *)
(* function returns (value, error).  Rotors are reached through pointers   *)
(* in Go, so they live in a heap (rotHeap) and an engine holds addresses;  *)
(* the RotorSpecs slice of a settings value is a slice header over a       *)
(* backing array, so it lives in a second heap (specHeap).  Go strings are *)
(* sequences of UTF-8 bytes.                                               *)
(***************************************************************************)
EXTENDS Integers, Sequences, FiniteSets, TLC

VARIABLES eng, cl, st, js, rotHeap, specHeap, phase, nopts, last, pre, rt, base, part

vars == <<eng, cl, st, js, rotHeap, specHeap, phase, nopts, last, pre, rt, base, part>>

(***************************************************************************)
(* Bounds of the model.                                                    *)
(***************************************************************************)
\* The longest text, in symbols, passed to Encrypt and Decrypt.
MaxLen == 2
\* The most options passed to New.
MaxOpts == 3
\* The number of heap cells.
MaxAddr == 9
\* The most rotors of an engine that is cloned.
MaxCloneRotors == 2

\* The nil pointer; a record, so that it compares with every struct.
Nil == [nil |-> TRUE]

(***************************************************************************)
(* Generic helpers.                                                        *)
(***************************************************************************)
Range(s) == {s[i] : i \in DOMAIN s}

Err == [ok |-> FALSE]

\* Go's remainder operator: the result has the sign of the dividend.
GoRem(a, b) == IF a >= 0 THEN a % b ELSE 0 - ((0 - a) % b)

SeqsUpTo(S, n) == UNION {[1..k -> S] : k \in 0..n}

(***************************************************************************)
(* Go strings: string(rune), string([]rune) and []rune(string).            *)
(***************************************************************************)
EncodeNone == <<65533>>

\* U+FFFD, what Go substitutes for an invalid rune or byte.
RuneError == EncodeNone[1]

ValidRune(r) == /\ r >= 0
                /\ r <= 1114111
                /\ ~(r >= 55296 /\ r <= 57343)

EncodeRune(r0) ==
  LET r == IF ValidRune(r0) THEN r0 ELSE RuneError
  IN  IF r < 128 THEN <<r>>
      ELSE IF r < 2048 THEN <<192 + (r \div 64), 128 + (r % 64)>>
      ELSE IF r < 65536
           THEN <<224 + (r \div 4096), 128 + ((r \div 64) % 64), 128 + (r % 64)>>
           ELSE <<240 + (r \div 262144), 128 + ((r \div 4096) % 64),
                  128 + ((r \div 64) % 64), 128 + (r % 64)>>

RECURSIVE RunesToString(_)
RunesToString(rs) ==
  IF rs = <<>> THEN <<>> ELSE EncodeRune(Head(rs)) \o RunesToString(Tail(rs))

IsCont(b) == b >= 128 /\ b < 192

\* The first rune of a non-empty string and the number of bytes it takes.
DecodeFirst(s) ==
  LET b == s[1]
      n == Len(s)
  IN  IF b < 128 THEN [r |-> b, w |-> 1]
      ELSE IF b >= 194 /\ b < 224 /\ n >= 2 /\ IsCont(s[2])
           THEN [r |-> (b - 192) * 64 + (s[2] - 128), w |-> 2]
      ELSE IF b >= 224 /\ b < 240 /\ n >= 3 /\ IsCont(s[2]) /\ IsCont(s[3])
              /\ LET v == (b - 224) * 4096 + (s[2] - 128) * 64 + (s[3] - 128)
                 IN  v >= 2048 /\ ValidRune(v)
           THEN [r |-> (b - 224) * 4096 + (s[2] - 128) * 64 + (s[3] - 128), w |-> 3]
      ELSE IF b >= 240 /\ b < 245 /\ n >= 4 /\ IsCont(s[2]) /\ IsCont(s[3]) /\ IsCont(s[4])
              /\ LET v == (b - 240) * 262144 + (s[2] - 128) * 4096
                          + (s[3] - 128) * 64 + (s[4] - 128)
                 IN  v >= 65536 /\ ValidRune(v)
           THEN [r |-> (b - 240) * 262144 + (s[2] - 128) * 4096
                       + (s[3] - 128) * 64 + (s[4] - 128), w |-> 4]
      ELSE [r |-> RuneError, w |-> 1]

\* The runes a range loop over the string yields. A byte that is no
\* continuation byte always begins a rune; a continuation byte begins one (the
\* error rune) unless a rune begun up to three bytes before it takes it in.
RunesFrom(s, starts) ==
  [k \in DOMAIN starts |-> DecodeFirst(SubSeq(s, starts[k], Len(s))).r]

StringToRunes(s) ==
  LET begins(i) == \A j \in {k \in (i - 3)..(i - 1) : k >= 1} :
                      j + DecodeFirst(SubSeq(s, j, Len(s))).w <= i
  IN RunesFrom(s, SelectSeq([i \in DOMAIN s |-> i], begins))

(***************************************************************************)
(* package alphabet                                                        *)
(***************************************************************************)
NewAlphabet(runes) ==
  IF Len(runes) = 0 THEN Err
  ELSE IF \E i, j \in DOMAIN runes : i < j /\ runes[i] = runes[j] THEN Err
  ELSE [ok |-> TRUE, val |-> [runes |-> runes, size |-> Len(runes)]]

Contains(a, r) == \E i \in DOMAIN a.runes : a.runes[i] = r

RuneToIndex(a, r) ==
  IF Contains(a, r)
  THEN [ok |-> TRUE, val |-> (CHOOSE i \in DOMAIN a.runes : a.runes[i] = r) - 1]
  ELSE Err

IndexToRune(a, idx) ==
  IF idx < 0 \/ idx >= a.size THEN Err
  ELSE [ok |-> TRUE, val |-> a.runes[idx + 1]]

ValidateString(a, s) == \A r \in Range(StringToRunes(s)) : Contains(a, r)

\* The loop of StringToIndices over the runes rs of the string.
RunesToIndices(a, rs) ==
  IF \E i \in DOMAIN rs : ~Contains(a, rs[i]) THEN Err
  ELSE [ok |-> TRUE, val |-> [i \in DOMAIN rs |-> RuneToIndex(a, rs[i]).val]]

StringToIndices(a, s) == RunesToIndices(a, StringToRunes(s))

IndicesToString(a, indices) ==
  IF \E i \in DOMAIN indices : ~IndexToRune(a, indices[i]).ok THEN Err
  ELSE [ok |-> TRUE,
        val |-> RunesToString([i \in DOMAIN indices |-> IndexToRune(a, indices[i]).val])]

\* The default safety limit of AutoDetectFromText on the alphabet's size.
DefaultMaxSize == 1000

\* unicode.IsSpace, which strings.TrimSpace trims by.
IsSpace(r) ==
  r \in ({9, 10, 11, 12, 13, 32, 133, 160, 5760, 8232, 8233, 8239, 8287, 12288}
           \cup 8192..8202)

\* strings.ReplaceAll(text, "\r\n", "\n") on the runes of the text: every
\* carriage return with a line feed behind it goes.
FirstOfEach(pairs) == [j \in DOMAIN pairs |-> pairs[j][1]]

NoCRLF(p) == ~(p[1] = 13 /\ p[2] = 10)

ReplaceCRLF(rs) ==
  FirstOfEach(SelectSeq([i \in DOMAIN rs |-> <<rs[i], IF i < Len(rs) THEN rs[i + 1] ELSE 0>>],
                        NoCRLF))

\* strings.ReplaceAll(text, "\r", "\n") on the runes of the text.
ReplaceCR(rs) == [i \in DOMAIN rs |-> IF rs[i] = 13 THEN 10 ELSE rs[i]]

\* The runes from the first to the last of the places to keep.
Trimmed(rs, keep) ==
  IF keep = {} THEN <<>>
  ELSE SubSeq(rs, CHOOSE i \in keep : \A j \in keep : i <= j,
                  CHOOSE i \in keep : \A j \in keep : j <= i)

TrimSpace(rs) == Trimmed(rs, {i \in DOMAIN rs : ~IsSpace(rs[i])})

\* The runes the loop of AutoDetectFromText ranges over: those of the
\* preprocessed text.
PreprocessTextForAutoDetection(text) ==
  TrimSpace(ReplaceCR(ReplaceCRLF(StringToRunes(text))))

isControlCharacter(r) ==
  IF r = 32 \/ r = 9 \/ r = 10 THEN FALSE
  ELSE (r >= 0 /\ r <= 31) \/ (r >= 127 /\ r <= 159)

\* The loop collecting uniqueRunes, which stops at the first rune that
\* brings the set to maxSize runes.
CollectUnique(rs, maxSize) ==
  LET seen(k) == {rs[i] : i \in {j \in 1..k : ~isControlCharacter(rs[j])}}
      full == {k \in DOMAIN rs : Cardinality(seen(k)) >= maxSize}
  IN IF full = {} THEN seen(Len(rs))
     ELSE seen(CHOOSE k \in full : \A j \in full : k <= j)

\* The runes of a set in code-point order: each goes to the place that the
\* number of lower runes of the set gives it.
InOrder(ranked) ==
  [i \in 1..Cardinality(ranked) |-> (CHOOSE p \in ranked : p[1] = i - 1)[2]]

SortRunes(S) == InOrder({<<Cardinality({q \in S : q < r}), r>> : r \in S})

\* The padding loop: from the space upwards to the first rune that is not
\* in uniqueRunes.
PaddingChar(uniqueRunes) ==
  CHOOSE p \in 32..(32 + Cardinality(uniqueRunes)) :
    p \notin uniqueRunes /\ \A q \in 32..(p - 1) : q \in uniqueRunes

\* The end of AutoDetectFromText: the sorted runes, padded to an even size.
Padded(uniqueRunes, runes) ==
  IF Len(runes) % 2 # 0
  THEN IF PaddingChar(uniqueRunes) > 65536 THEN Err
       ELSE NewAlphabet(Append(runes, PaddingChar(uniqueRunes)))
  ELSE NewAlphabet(runes)

DetectedFrom(uniqueRunes) ==
  IF uniqueRunes = {} THEN Err ELSE Padded(uniqueRunes, SortRunes(uniqueRunes))

\* AutoDetectFromText with the default options.
AutoDetectFromText(text) ==
  IF Len(text) = 0 THEN Err
  ELSE DetectedFrom(CollectUnique(PreprocessTextForAutoDetection(text), DefaultMaxSize))

(***************************************************************************)
(* package rotor                                                           *)
(***************************************************************************)
\* The wiring tables are sequences; Go index i is element i + 1.
\* NewRotor filling the backward table with the forward wiring.
NewRotorOfOneTable(id, alph, fr, notches) ==
  IF Len(fr) # alph.size THEN Err
  ELSE IF \E i \in DOMAIN fr : ~Contains(alph, fr[i]) THEN Err
  ELSE IF \E i, j \in DOMAIN fr : i < j /\ fr[i] = fr[j] THEN Err
  ELSE IF \E i \in DOMAIN notches : ~Contains(alph, notches[i]) THEN Err
  ELSE [ok |-> TRUE,
        val |-> [id |-> id,
                 forwardMap |-> [i \in 1..alph.size |-> RuneToIndex(alph, fr[i]).val],
                 backwardMap |-> [i \in 1..alph.size |-> RuneToIndex(alph, fr[i]).val],
                 notches |-> [i \in DOMAIN notches |-> RuneToIndex(alph, notches[i]).val],
                 position |-> 0,
                 ringSetting |-> 0,
                 size |-> alph.size]]

\* NewRotor on the runes fr of the forward mapping.
NewRotorOf(id, alph, fr, notches) ==
  IF Len(fr) # alph.size THEN Err
  ELSE IF \E i \in DOMAIN fr : ~Contains(alph, fr[i]) THEN Err
  ELSE IF \E i, j \in DOMAIN fr : i < j /\ fr[i] = fr[j] THEN Err
  ELSE IF \E i \in DOMAIN notches : ~Contains(alph, notches[i]) THEN Err
  ELSE [ok |-> TRUE,
        val |-> [id |-> id,
                 forwardMap |-> [i \in 1..alph.size |-> RuneToIndex(alph, fr[i]).val],
                 backwardMap |-> [o \in 1..alph.size |->
                      (CHOOSE i \in 1..alph.size : RuneToIndex(alph, fr[i]).val = o - 1) - 1],
                 notches |-> [i \in DOMAIN notches |-> RuneToIndex(alph, notches[i]).val],
                 position |-> 0,
                 ringSetting |-> 0,
                 size |-> alph.size]]

NewRotor(id, alph, forwardMapping, notches) ==
  NewRotorOf(id, alph, StringToRunes(forwardMapping), notches)

\* Every outcome of the notch draws of RandomRotor: one to three positions,
\* drawn again until they differ.
NotchDraws(size) ==
  {d \in UNION {[1..k -> 0..(size - 1)] : k \in 1..3} :
     \A i, j \in DOMAIN d : i # j => d[i] # d[j]}

\* RandomRotor when the shuffle leaves the runes of the alphabet in the order
\* available and the notch positions drawn are draws.
RandomRotor(id, alph, available, draws) ==
  NewRotor(id, alph,
           RunesToString([i \in 1..alph.size |-> alph.runes[available[i] + 1]]),
           [i \in DOMAIN draws |-> alph.runes[available[draws[i] + 1] + 1]])

\* Forward taking the offset off the input and putting it back on the output.
ForwardOffsetReversed(r, inputIdx) ==
  IF inputIdx < 0 \/ inputIdx >= r.size THEN inputIdx
  ELSE GoRem(r.forwardMap[GoRem(inputIdx - r.position + r.ringSetting + r.size, r.size) + 1]
               + r.position - r.ringSetting + r.size, r.size)

Forward(r, inputIdx) ==
  IF inputIdx < 0 \/ inputIdx >= r.size THEN inputIdx
  ELSE LET adjustedInput == GoRem(inputIdx + r.position - r.ringSetting + r.size, r.size)
           output == r.forwardMap[adjustedInput + 1]
       IN  GoRem(output - r.position + r.ringSetting + r.size, r.size)

\* Backward looking its input up in the forward wiring.
BackwardThroughForwardMap(r, inputIdx) ==
  IF inputIdx < 0 \/ inputIdx >= r.size THEN inputIdx
  ELSE GoRem(r.forwardMap[GoRem(inputIdx + r.position - r.ringSetting + r.size, r.size) + 1]
               - r.position + r.ringSetting + r.size, r.size)

Backward(r, inputIdx) ==
  IF inputIdx < 0 \/ inputIdx >= r.size THEN inputIdx
  ELSE LET adjustedInput == GoRem(inputIdx + r.position - r.ringSetting + r.size, r.size)
           output == r.backwardMap[adjustedInput + 1]
       IN  GoRem(output - r.position + r.ringSetting + r.size, r.size)

IsAtNotch(r) == \E i \in DOMAIN r.notches : r.position = r.notches[i]

Step(r) == [r EXCEPT !.position = GoRem(r.position + 1, r.size)]

\* SetPosition keeping the remainder of the division as Go computes it.
SetPositionOfRemainder(r, pos) ==
  [r EXCEPT !.position = GoRem(pos, r.size)]

SetPosition(r, pos) ==
  [r EXCEPT !.position = GoRem(GoRem(pos, r.size) + r.size, r.size)]

SetRingSetting(r, ring) ==
  [r EXCEPT !.ringSetting = GoRem(GoRem(ring, r.size) + r.size, r.size)]

\* RotorSpec is [ID, ForwardMapping, Notches, Position, RingSetting].
\* The end of CreateFromSpec: n is what NewRotor returned.
PlaceRotor(n, spec) ==
  IF ~n.ok THEN Err
  ELSE [ok |-> TRUE,
        val |-> SetRingSetting(SetPosition(n.val, spec.Position), spec.RingSetting)]

CreateFromSpec(spec, alph) ==
  PlaceRotor(NewRotor(spec.ID, alph, spec.ForwardMapping, spec.Notches), spec)

ToSpec(br, alph) ==
  IF \E i \in 1..br.size : ~IndexToRune(alph, br.forwardMap[i]).ok THEN Err
  ELSE IF \E i \in DOMAIN br.notches : ~IndexToRune(alph, br.notches[i]).ok THEN Err
  ELSE [ok |-> TRUE,
        val |-> [ID |-> br.id,
                 ForwardMapping |-> RunesToString([i \in 1..br.size |->
                                       IndexToRune(alph, br.forwardMap[i]).val]),
                 Notches |-> [i \in DOMAIN br.notches |->
                                IndexToRune(alph, br.notches[i]).val],
                 Position |-> br.position,
                 RingSetting |-> br.ringSetting]]

(***************************************************************************)
(* package reflector                                                       *)
(***************************************************************************)
\* NewReflector without the test that the mapping is reciprocal.
NewReflectorOfUnpaired(id, alph, reflectMap) ==
  [ok |-> TRUE, val |-> [id |-> id, mapping |-> reflectMap, size |-> alph.size]]

\* NewReflector once the mapping has been converted to the indices reflectMap.
NewReflectorOf(id, alph, reflectMap) ==
  IF \E i \in 1..alph.size : reflectMap[reflectMap[i] + 1] # i - 1 THEN Err
  ELSE [ok |-> TRUE, val |-> [id |-> id, mapping |-> reflectMap, size |-> alph.size]]

\* NewReflector on the runes mr of the mapping.
NewReflectorOn(id, alph, mr) ==
  IF Len(mr) # alph.size THEN Err
  ELSE IF \E i \in DOMAIN mr : ~Contains(alph, mr[i]) THEN Err
  ELSE IF \E i \in DOMAIN mr : RuneToIndex(alph, mr[i]).val = i - 1 THEN Err
  ELSE IF \E i, j \in DOMAIN mr : i < j /\ mr[i] = mr[j] THEN Err
  ELSE NewReflectorOf(id, alph, [i \in 1..alph.size |-> RuneToIndex(alph, mr[i]).val])

NewReflector(id, alph, mapping) == NewReflectorOn(id, alph, StringToRunes(mapping))

Reflect(r, inputIdx) ==
  IF inputIdx < 0 \/ inputIdx >= r.size THEN inputIdx
  ELSE r.mapping[inputIdx + 1]

\* The index paired with idx when the shuffle leaves the indices in the order
\* available: its neighbour in the pair (available[i], available[i+1]), i even.
Partner(available, idx) ==
  LET j == CHOOSE k \in DOMAIN available : available[k] = idx
  IN  IF j % 2 = 1 THEN available[j + 1] ELSE available[j - 1]

\* RandomReflector when the shuffle leaves the indices in the order available.
RandomReflector(id, alph, available) ==
  IF alph.size % 2 # 0 THEN Err
  ELSE NewReflector(id, alph,
                    RunesToString([i \in 1..alph.size |->
                                     alph.runes[Partner(available, i - 1) + 1]]))

\* ReflectorSpec is [ID, Mapping].
ReflectorCreateFromSpec(spec, alph) == NewReflector(spec.ID, alph, spec.Mapping)

ReflectorToSpec(br, alph) ==
  IF \E i \in 1..br.size : ~IndexToRune(alph, br.mapping[i]).ok THEN Err
  ELSE [ok |-> TRUE,
        val |-> [ID |-> br.id,
                 Mapping |-> RunesToString([i \in 1..br.size |->
                                IndexToRune(alph, br.mapping[i]).val])]]

(***************************************************************************)
(* package plugboard                                                       *)
(***************************************************************************)
\* A Go map is a function whose domain is the set of its keys.
EmptyMap == [x \in {} |-> 0]

MapPut(m, k, v) == [x \in DOMAIN m \cup {k} |-> IF x = k THEN v ELSE m[x]]

\* The plugboard keeps its alphabet: AddPair and GetPairsMap convert through it.
NewPlugboard(alph) ==
  [alphabet |-> alph, mapping |-> EmptyMap, pairs |-> EmptyMap, size |-> alph.size]

\* AddPair without the test that either index is already paired.
AddPairAtOverwriting(p, i1, i2) ==
  IF ~i1.ok \/ ~i2.ok THEN [ok |-> FALSE, val |-> p]
  ELSE IF i1.val = i2.val THEN [ok |-> FALSE, val |-> p]
  ELSE [ok |-> TRUE,
        val |-> [p EXCEPT
                   !.mapping = MapPut(MapPut(p.mapping, i1.val, i2.val), i2.val, i1.val),
                   !.pairs = MapPut(MapPut(p.pairs, i1.val, i2.val), i2.val, i1.val)]]

\* AddPair on the indices i1 and i2 that RuneToIndex returned for the runes.
AddPairAt(p, i1, i2) ==
  IF ~i1.ok \/ ~i2.ok THEN [ok |-> FALSE, val |-> p]
  ELSE IF i1.val = i2.val THEN [ok |-> FALSE, val |-> p]
  ELSE IF i1.val \in DOMAIN p.pairs \/ i2.val \in DOMAIN p.pairs
       THEN [ok |-> FALSE, val |-> p]
  ELSE [ok |-> TRUE,
        val |-> [p EXCEPT
                   !.mapping = MapPut(MapPut(p.mapping, i1.val, i2.val), i2.val, i1.val),
                   !.pairs = MapPut(MapPut(p.pairs, i1.val, i2.val), i2.val, i1.val)]]

AddPair(p, r1, r2) == AddPairAt(p, RuneToIndex(p.alphabet, r1), RuneToIndex(p.alphabet, r2))

Clear(p) == [p EXCEPT !.mapping = EmptyMap, !.pairs = EmptyMap]

Process(p, inputIdx) ==
  IF inputIdx < 0 \/ inputIdx >= p.size THEN inputIdx
  ELSE IF inputIdx \in DOMAIN p.mapping THEN p.mapping[inputIdx]
  ELSE inputIdx

GetPairsMap(p) ==
  IF \E k \in DOMAIN p.mapping :
        ~IndexToRune(p.alphabet, k).ok \/ ~IndexToRune(p.alphabet, p.mapping[k]).ok
  THEN Err
  ELSE [ok |-> TRUE,
        val |-> [r \in {IndexToRune(p.alphabet, k).val : k \in DOMAIN p.mapping} |->
                   LET k == CHOOSE k \in DOMAIN p.mapping : IndexToRune(p.alphabet, k).val = r
                   IN  IndexToRune(p.alphabet, p.mapping[k]).val]]

\* The loop of SetPairsFromMap over the keys in the order the map iteration
\* yields them; order is a sequence of the keys of pairs.
RECURSIVE SetPairsLoop(_, _, _, _)
\* One pair of the loop: a is what AddPair returned for the head of order.
SetPairsNext(p, a, pairs, order, processed) ==
  IF ~a.ok THEN [ok |-> FALSE, val |-> p]
  ELSE SetPairsLoop(a.val, pairs, Tail(order), processed \cup {Head(order), pairs[Head(order)]})

SetPairsLoop(p, pairs, order, processed) ==
  IF order = <<>> THEN [ok |-> TRUE, val |-> p]
  ELSE IF Head(order) \in processed THEN SetPairsLoop(p, pairs, Tail(order), processed)
  ELSE IF pairs[Head(order)] \notin DOMAIN pairs \/ pairs[pairs[Head(order)]] # Head(order)
       THEN [ok |-> FALSE, val |-> p]
  ELSE SetPairsNext(p, AddPair(p, Head(order), pairs[Head(order)]), pairs, order, processed)

SetPairsFromMap(p, pairs, order) == SetPairsLoop(Clear(p), pairs, order, {})

MapDelete(m, k) == [x \in DOMAIN m \ {k} |-> m[x]]

\* RemovePair on the index idx that RuneToIndex returned for the rune.
RemovePairAt(p, idx) ==
  IF ~idx.ok THEN [ok |-> FALSE, val |-> p]
  ELSE IF idx.val \notin DOMAIN p.pairs THEN [ok |-> FALSE, val |-> p]
  ELSE [ok |-> TRUE,
        val |-> [p EXCEPT
                   !.mapping = MapDelete(MapDelete(p.mapping, idx.val), p.pairs[idx.val]),
                   !.pairs = MapDelete(MapDelete(p.pairs, idx.val), p.pairs[idx.val])]]

RemovePair(p, r) == RemovePairAt(p, RuneToIndex(p.alphabet, r))

\* Every outcome of the shuffle of the indices 0..size-1: the sequences that
\* hold each index once.
Shuffles(size) ==
  {available \in [1..size -> 0..(size - 1)] : Range(available) = 0..(size - 1)}

\* The pairs (available[i], available[i+1]) for i = 0, 2, .. below 2n, with
\* available indexed from 1 here.
RECURSIVE PairUp(_, _, _, _)
PairUp(p, available, i, n) ==
  IF i >= n * 2 THEN p
  ELSE PairUp([p EXCEPT
                 !.mapping = MapPut(MapPut(p.mapping, available[i + 1], available[i + 2]),
                                    available[i + 2], available[i + 1]),
                 !.pairs = MapPut(MapPut(p.pairs, available[i + 1], available[i + 2]),
                                  available[i + 2], available[i + 1])],
              available, i + 2, n)

\* RandomPairs(n) when the shuffle leaves the indices in the order available.
RandomPairs(p, n, available) ==
  IF n < 0 THEN [ok |-> FALSE, val |-> p]
  ELSE IF n > p.size \div 2 THEN [ok |-> FALSE, val |-> p]
  ELSE IF n = 0 THEN [ok |-> TRUE, val |-> Clear(p)]
  ELSE [ok |-> TRUE, val |-> PairUp(Clear(p), available, 0, n)]

PairCount(p) == Cardinality(DOMAIN p.pairs) \div 2

\* Every way a range over the keys of m can enumerate them.
KeyOrders(m) ==
  {o \in [1..Cardinality(DOMAIN m) -> DOMAIN m] : Range(o) = DOMAIN m}

(***************************************************************************)
(* The heaps.  Address 0 is the nil slice; a free cell holds Nil.          *)
(***************************************************************************)
Addrs == 1..MaxAddr

EmptyHeap == [a \in Addrs |-> Nil]

\* A free cell of the heap of spec arrays holds the empty array.
EmptySpecHeap == [a \in Addrs |-> <<>>]

\* The n lowest addresses that are not in used, in increasing order.
RECURSIVE Alloc(_, _)
Alloc(n, used) ==
  IF n = 0 THEN <<>>
  ELSE LET a == CHOOSE x \in Addrs \ used : \A y \in Addrs \ used : x <= y
       IN  <<a>> \o Alloc(n - 1, used \cup {a})

\* Store the values vals at the addresses as.
Store(h, as, vals) ==
  [a \in Addrs |-> IF \E i \in DOMAIN as : as[i] = a
                   THEN vals[CHOOSE i \in DOMAIN as : as[i] = a]
                   ELSE h[a]]

\* What the garbage collector leaves: the cells some holder still refers to.
Collect(h, live) == [a \in Addrs |-> IF a \in live THEN h[a] ELSE Nil]

CollectSpecs(sh, live) == [a \in Addrs |-> IF a \in live THEN sh[a] ELSE <<>>]

SpecsAt(sh, a) == IF a = 0 THEN <<>> ELSE sh[a]

(***************************************************************************)
(* package enigma: the engine                                              *)
(***************************************************************************)
\* EnigmaSettings; RotorSpecs is the address of the slice's backing array.
ZeroSettings ==
  [SchemaVersion |-> 0, Alphabet |-> <<>>, RotorSpecs |-> 0,
   ReflectorSpec |-> [ID |-> "", Mapping |-> <<>>],
   PlugboardPairs |-> EmptyMap, CurrentRotorPositions |-> <<>>]

\* Enigma{}: the engine New starts from.
ZeroEnigma ==
  [alphabet |-> Nil, rotors |-> <<>>, reflector |-> Nil, plugboard |-> Nil,
   initialSettings |-> ZeroSettings]

RotorsOf(h, e) == [i \in DOMAIN e.rotors |-> h[e.rotors[i]]]

\* The loop of stepRotors from index i (Go index i - 1) leftwards.
RECURSIVE StepLoop(_, _, _, _)
StepLoop(h, addrs, i, doubleStep) ==
  IF i < 1 THEN h
  ELSE IF IsAtNotch(h[addrs[i + 1]])
       THEN StepLoop([h EXCEPT ![addrs[i]] = Step(h[addrs[i]])], addrs, i - 1, doubleStep)
       ELSE IF i = Len(addrs) - 1 /\ doubleStep
            THEN StepLoop([h EXCEPT ![addrs[i]] = Step(h[addrs[i]])], addrs, i - 1, doubleStep)
            ELSE h

\* stepRotors without the double step of the second-from-right rotor.
stepRotorsWithoutDoubleStep(h, e) ==
  IF Len(e.rotors) = 0 THEN h
  ELSE StepLoop([h EXCEPT ![e.rotors[Len(e.rotors)]] = Step(h[e.rotors[Len(e.rotors)]])],
                e.rotors, Len(e.rotors) - 1, FALSE)

stepRotors(h, e) ==
  LET n == Len(e.rotors)
  IN  IF n = 0 THEN h
      ELSE LET doubleStep == IF n >= 2 THEN IsAtNotch(h[e.rotors[n - 1]]) ELSE FALSE
               h1 == [h EXCEPT ![e.rotors[n]] = Step(h[e.rotors[n]])]
           IN  StepLoop(h1, e.rotors, n - 1, doubleStep)

RECURSIVE ForwardChain(_, _, _, _)
ForwardChain(h, addrs, i, current) ==
  IF i < 1 THEN current
  ELSE ForwardChain(h, addrs, i - 1, Forward(h[addrs[i]], current))

RECURSIVE BackwardChain(_, _, _, _)
BackwardChain(h, addrs, i, current) ==
  IF i > Len(addrs) THEN current
  ELSE BackwardChain(h, addrs, i + 1, Backward(h[addrs[i]], current))

\* Steps 1 to 5 of processCharacter on rotors that have already stepped.
Transform(h, e, inputIdx) ==
  LET c1 == Process(e.plugboard, inputIdx)
      c2 == ForwardChain(h, e.rotors, Len(e.rotors), c1)
      c3 == Reflect(e.reflector, c2)
      c4 == BackwardChain(h, e.rotors, 1, c3)
  IN  Process(e.plugboard, c4)

\* processCharacter once the rotors have stepped: h1 is the heap after stepRotors.
Stepped(h1, e, inputIdx) == [heap |-> h1, out |-> Transform(h1, e, inputIdx)]

\* processCharacter stepping the rotors for every symbol but the first of the
\* alphabet.
processCharacterSteppingBySymbol(h, e, inputIdx) ==
  Stepped(IF inputIdx = 0 THEN h ELSE stepRotors(h, e), e, inputIdx)

processCharacter(h, e, inputIdx) == Stepped(stepRotors(h, e), e, inputIdx)

RECURSIVE ProcessLoop(_, _, _, _)
\* One turn of the loop of processText: r is what processCharacter returned.
ProcessNext(r, e, indices, outs) ==
  ProcessLoop(r.heap, e, Tail(indices), Append(outs, r.out))

ProcessLoop(h, e, indices, outs) ==
  IF indices = <<>> THEN [heap |-> h, out |-> outs]
  ELSE ProcessNext(processCharacter(h, e, Head(indices)), e, indices, outs)

\* Encrypt and Decrypt are both processText.
\* The end of processText: result is what IndicesToString returned.
ProcessResult(r, result) ==
  IF ~result.ok THEN [ok |-> FALSE, out |-> <<>>, heap |-> r.heap]
  ELSE [ok |-> TRUE, out |-> result.val, heap |-> r.heap]

\* processText after the loop: r holds the output indices and the rotors.
ProcessOutput(e, r) == ProcessResult(r, IndicesToString(e.alphabet, r.out))

\* processText after validation: indices is what StringToIndices returned.
ProcessIndices(h, e, indices) ==
  IF ~indices.ok THEN [ok |-> FALSE, out |-> <<>>, heap |-> h]
  ELSE ProcessOutput(e, ProcessLoop(h, e, indices.val, <<>>))

processText(h, e, text) ==
  IF text = <<>> THEN [ok |-> TRUE, out |-> <<>>, heap |-> h]
  ELSE IF ~ValidateString(e.alphabet, text) THEN [ok |-> FALSE, out |-> <<>>, heap |-> h]
  ELSE ProcessIndices(h, e, StringToIndices(e.alphabet, text))

Encrypt(h, e, plaintext) == processText(h, e, plaintext)

Decrypt(h, e, ciphertext) == processText(h, e, ciphertext)

RECURSIVE ResetLoop(_, _, _, _)
ResetLoop(h, addrs, specs, i) ==
  IF i > Len(specs) THEN h
  ELSE IF i <= Len(addrs)
       THEN ResetLoop([h EXCEPT ![addrs[i]] = SetPosition(h[addrs[i]], specs[i].Position)],
                      addrs, specs, i + 1)
       ELSE ResetLoop(h, addrs, specs, i + 1)

\* Reset whose loop stops one rotor early.
ResetAllButLast(h, sh, e) ==
  ResetLoop(h, SubSeq(e.rotors, 1, Len(e.rotors) - 1),
            SpecsAt(sh, e.initialSettings.RotorSpecs), 1)

Reset(h, sh, e) == ResetLoop(h, e.rotors, SpecsAt(sh, e.initialSettings.RotorSpecs), 1)

GetCurrentRotorPositions(h, e) == [i \in DOMAIN e.rotors |-> h[e.rotors[i]].position]

RECURSIVE SetPositionsLoop(_, _, _, _)
SetPositionsLoop(h, addrs, positions, i) ==
  IF i > Len(positions) THEN h
  ELSE SetPositionsLoop([h EXCEPT ![addrs[i]] = SetPosition(h[addrs[i]], positions[i])],
                        addrs, positions, i + 1)

SetRotorPositions(h, e, positions) ==
  IF Len(positions) # Len(e.rotors) THEN [ok |-> FALSE, heap |-> h]
  ELSE [ok |-> TRUE, heap |-> SetPositionsLoop(h, e.rotors, positions, 1)]

GetRotorCount(e) == Len(e.rotors)

GetAlphabetSize(e) == e.alphabet.size

GetPlugboardPairCount(e) == PairCount(e.plugboard)

\* Clone copying every rotor but the last, whose pointer it keeps.
CloneKeepingLastRotor(h, e, as) ==
  [heap |-> Store(h, as, RotorsOf(h, e)),
   val |-> [alphabet |-> e.alphabet,
            rotors |-> [i \in DOMAIN as |-> IF i = Len(as) THEN e.rotors[i] ELSE as[i]],
            reflector |-> e.reflector,
            plugboard |-> e.plugboard,
            initialSettings |-> e.initialSettings]]

\* Clone copying the slice of rotor pointers instead of the rotors.
CloneSharingRotors(h, e, as) == [heap |-> h, val |-> e]

\* Clone: the rotors are copied to the fresh addresses as; the initial
\* settings are copied as a struct value, so the RotorSpecs slice is shared.
Clone(h, e, as) ==
  [heap |-> Store(h, as, RotorsOf(h, e)),
   val |-> [alphabet |-> e.alphabet,
            rotors |-> as,
            reflector |-> e.reflector,
            plugboard |-> e.plugboard,
            initialSettings |-> e.initialSettings]]

(***************************************************************************)
(* package enigma: settings                                                *)
(***************************************************************************)
\* GetSettings; a is the address of the rotorSpecs array it makes.  The
\* result carries the contents of that array in specs.
GetSettings(h, e, a) ==
  IF e.alphabet = Nil THEN Err
  ELSE IF \E i \in DOMAIN e.rotors : ~ToSpec(h[e.rotors[i]], e.alphabet).ok THEN Err
  ELSE IF e.reflector = Nil THEN Err
  ELSE IF ~ReflectorToSpec(e.reflector, e.alphabet).ok THEN Err
  ELSE IF ~GetPairsMap(e.plugboard).ok THEN Err
  ELSE [ok |-> TRUE,
        specs |-> [i \in DOMAIN e.rotors |-> ToSpec(h[e.rotors[i]], e.alphabet).val],
        val |-> [SchemaVersion |-> 1,
                 Alphabet |-> e.alphabet.runes,
                 RotorSpecs |-> a,
                 ReflectorSpec |-> ReflectorToSpec(e.reflector, e.alphabet).val,
                 PlugboardPairs |-> GetPairsMap(e.plugboard).val,
                 CurrentRotorPositions |-> GetCurrentRotorPositions(h, e)]]

\* LoadSettings assigns the fields of e one by one and returns at the first
\* failure, so each stage below hands the engine as it stands to the next:
\* as are the addresses of the rotors it creates and order is the order in
\* which the plugboard map is ranged over.
\* The end of LoadSettings leaving the rotors where CreateFromSpec put them.
LoadPositionsIgnoringCurrent(h2, specs, e4, settings) ==
  IF /\ Len(settings.CurrentRotorPositions) > 0
     /\ Len(settings.CurrentRotorPositions) # Len(e4.rotors)
  THEN [ok |-> FALSE, eng |-> e4, heap |-> h2]
  ELSE [ok |-> TRUE,
        eng |-> [e4 EXCEPT !.initialSettings =
                   [settings EXCEPT !.CurrentRotorPositions =
                      [i \in DOMAIN specs |-> specs[i].Position]]],
        heap |-> h2]

\* The current positions and the initial settings; specs is the content of
\* settings.RotorSpecs.
LoadPositions(h2, specs, e4, settings) ==
  IF /\ Len(settings.CurrentRotorPositions) > 0
     /\ Len(settings.CurrentRotorPositions) # Len(e4.rotors)
  THEN [ok |-> FALSE, eng |-> e4, heap |-> h2]
  ELSE [ok |-> TRUE,
        eng |-> [e4 EXCEPT !.initialSettings =
                   [settings EXCEPT !.CurrentRotorPositions =
                      [i \in DOMAIN specs |-> specs[i].Position]]],
        heap |-> IF Len(settings.CurrentRotorPositions) > 0
                 THEN SetPositionsLoop(h2, e4.rotors, settings.CurrentRotorPositions, 1)
                 ELSE h2]

\* The plugboard: pb is what SetPairsFromMap returned on a new plugboard.
LoadPlugboard(h2, specs, e3, settings, pb) ==
  IF ~pb.ok THEN [ok |-> FALSE, eng |-> e3, heap |-> h2]
  ELSE LoadPositions(h2, specs, [e3 EXCEPT !.plugboard = pb.val], settings)

\* The reflector: refl is what reflector.CreateFromSpec returned.
LoadReflector(h2, specs, e2, settings, order, refl) ==
  IF ~refl.ok THEN [ok |-> FALSE, eng |-> e2, heap |-> h2]
  ELSE LoadPlugboard(h2, specs, [e2 EXCEPT !.reflector = refl.val], settings,
                     IF Cardinality(DOMAIN settings.PlugboardPairs) > 0
                     THEN SetPairsFromMap(NewPlugboard(e2.alphabet),
                                          settings.PlugboardPairs, order)
                     ELSE [ok |-> TRUE, val |-> NewPlugboard(e2.alphabet)])

\* The rotors, created against the alphabet just assigned.
LoadRotors(h, specs, e1, settings, as, order) ==
  IF \E i \in DOMAIN specs : ~CreateFromSpec(specs[i], e1.alphabet).ok
  THEN [ok |-> FALSE, eng |-> e1, heap |-> h]
  ELSE LoadReflector(Store(h, as, [i \in DOMAIN specs |->
                                     CreateFromSpec(specs[i], e1.alphabet).val]),
                     specs, [e1 EXCEPT !.rotors = as], settings, order,
                     ReflectorCreateFromSpec(settings.ReflectorSpec, e1.alphabet))

\* The alphabet: alph is what alphabet.New returned.
LoadAlphabet(h, specs, e, settings, as, order, alph) ==
  IF ~alph.ok THEN [ok |-> FALSE, eng |-> e, heap |-> h]
  ELSE LoadRotors(h, specs, [e EXCEPT !.alphabet = alph.val], settings, as, order)

LoadSettings(h, sh, e, settings, as, order) ==
  IF settings = Nil THEN [ok |-> FALSE, eng |-> e, heap |-> h]
  ELSE LoadAlphabet(h, SpecsAt(sh, settings.RotorSpecs), e, settings, as, order,
                    NewAlphabet(settings.Alphabet))

NewFromSettings(h, sh, settings, as, order) ==
  LoadSettings(h, sh, ZeroEnigma, settings, as, order)

\* The JSON object MarshalJSON writes: the alphabet is string([]rune) and
\* the plugboard map is keyed by string(rune); the specs marshal field by field.
MarshalJSON(sh, s) ==
  [schema_version |-> s.SchemaVersion,
   alphabet |-> RunesToString(s.Alphabet),
   rotor_specs |-> [i \in DOMAIN SpecsAt(sh, s.RotorSpecs) |->
       LET spec == SpecsAt(sh, s.RotorSpecs)[i]
       IN  [id |-> spec.ID, forward_mapping |-> spec.ForwardMapping,
            notches |-> spec.Notches, position |-> spec.Position,
            ring_setting |-> spec.RingSetting]],
   reflector_spec |-> [id |-> s.ReflectorSpec.ID, mapping |-> s.ReflectorSpec.Mapping],
   plugboard_pairs |-> [k \in {EncodeRune(r) : r \in DOMAIN s.PlugboardPairs} |->
       EncodeRune(s.PlugboardPairs[CHOOSE r \in DOMAIN s.PlugboardPairs : EncodeRune(r) = k])],
   current_rotor_positions |-> s.CurrentRotorPositions]

\* UnmarshalJSON; len(k) is the number of bytes of the key.  The result
\* carries the rotor specs it decoded in specs, to be stored at address a.
UnmarshalJSON(j, a) ==
  IF j.schema_version # 1 THEN Err
  ELSE IF \E k \in DOMAIN j.plugboard_pairs : Len(k) # 1 \/ Len(j.plugboard_pairs[k]) # 1
       THEN Err
  ELSE [ok |-> TRUE,
        specs |-> [i \in DOMAIN j.rotor_specs |->
            [ID |-> j.rotor_specs[i].id,
             ForwardMapping |-> j.rotor_specs[i].forward_mapping,
             Notches |-> j.rotor_specs[i].notches,
             Position |-> j.rotor_specs[i].position,
             RingSetting |-> j.rotor_specs[i].ring_setting]],
        val |-> [SchemaVersion |-> j.schema_version,
                 Alphabet |-> StringToRunes(j.alphabet),
                 RotorSpecs |-> a,
                 ReflectorSpec |-> [ID |-> j.reflector_spec.id,
                                    Mapping |-> j.reflector_spec.mapping],
                 PlugboardPairs |-> [r \in {StringToRunes(k)[1] : k \in DOMAIN j.plugboard_pairs} |->
                     StringToRunes(j.plugboard_pairs[
                        CHOOSE k \in DOMAIN j.plugboard_pairs : StringToRunes(k)[1] = r])[1]],
                 CurrentRotorPositions |-> j.current_rotor_positions]]

\* SaveSettingsToJSON after GetSettings returned r, its rotor specs at a.
MarshalSettings(sh, r, a) ==
  IF ~r.ok THEN Err
  ELSE [ok |-> TRUE, val |-> MarshalJSON([sh EXCEPT ![a] = r.specs], r.val)]

\* The JSON text is modelled by the JSON value it denotes.
SaveSettingsToJSON(h, sh, e, a) == MarshalSettings(sh, GetSettings(h, e, a), a)

\* NewFromJSON after json.Unmarshal returned u, its rotor specs at a; the
\* result carries the heap of spec arrays in specHeap.
NewFromUnmarshalled(h, sh, u, a, as, order) ==
  IF ~u.ok THEN [ok |-> FALSE, eng |-> Nil, heap |-> h, specHeap |-> sh]
  ELSE [specHeap |-> [sh EXCEPT ![a] = u.specs]]
       @@ NewFromSettings(h, [sh EXCEPT ![a] = u.specs], u.val, as, order)

NewFromJSON(h, sh, jsonData, a, as, order) ==
  NewFromUnmarshalled(h, sh, UnmarshalJSON(jsonData, a), a, as, order)

(***************************************************************************)
(* package enigma: options and New                                         *)
(***************************************************************************)
WithAlphabet(e, runes) ==
  LET alph == NewAlphabet(runes)
  IN  IF ~alph.ok THEN [ok |-> FALSE, eng |-> e]
      ELSE [ok |-> TRUE, eng |-> [e EXCEPT !.alphabet = alph.val]]

\* rotors, refl and pb are the caller's components; the engine gets clones,
\* the rotors at the fresh addresses as.  Nothing compares their sizes with
\* the alphabet's.
WithCustomComponents(h, e, rotors, refl, pb, as) ==
  IF Len(rotors) = 0 THEN [ok |-> FALSE, eng |-> e, heap |-> h]
  ELSE IF refl = Nil THEN [ok |-> FALSE, eng |-> e, heap |-> h]
  ELSE [ok |-> TRUE,
        heap |-> Store(h, as, rotors),
        eng |-> [e EXCEPT !.rotors = as,
                          !.reflector = refl,
                          !.plugboard = IF pb # Nil THEN pb ELSE e.plugboard]]

WithRotorConfiguration(h, e, rotorSpecs, as) ==
  IF e.alphabet = Nil THEN [ok |-> FALSE, eng |-> e, heap |-> h]
  ELSE IF Len(rotorSpecs) = 0 THEN [ok |-> FALSE, eng |-> e, heap |-> h]
  ELSE IF \E i \in DOMAIN rotorSpecs : ~CreateFromSpec(rotorSpecs[i], e.alphabet).ok
       THEN [ok |-> FALSE, eng |-> e, heap |-> h]
  ELSE [ok |-> TRUE,
        heap |-> Store(h, as, [i \in DOMAIN rotorSpecs |->
                                  CreateFromSpec(rotorSpecs[i], e.alphabet).val]),
        eng |-> [e EXCEPT !.rotors = as]]

\* refl is what reflector.CreateFromSpec returned.
WithReflector(e, refl) ==
  IF ~refl.ok THEN [ok |-> FALSE, eng |-> e]
  ELSE [ok |-> TRUE, eng |-> [e EXCEPT !.reflector = refl.val]]

WithReflectorConfiguration(e, reflectorSpec) ==
  IF e.alphabet = Nil THEN [ok |-> FALSE, eng |-> e]
  ELSE WithReflector(e, ReflectorCreateFromSpec(reflectorSpec, e.alphabet))

\* pb is what SetPairsFromMap returned on a new plugboard.
WithPlugboard(e, pb) ==
  IF ~pb.ok THEN [ok |-> FALSE, eng |-> e]
  ELSE [ok |-> TRUE, eng |-> [e EXCEPT !.plugboard = pb.val]]

WithPlugboardConfiguration(e, pairs, order) ==
  IF e.alphabet = Nil THEN [ok |-> FALSE, eng |-> e]
  ELSE WithPlugboard(e, IF Cardinality(DOMAIN pairs) > 0
                        THEN SetPairsFromMap(NewPlugboard(e.alphabet), pairs, order)
                        ELSE [ok |-> TRUE, val |-> NewPlugboard(e.alphabet)])

WithRotorPositions(h, e, positions) ==
  IF Len(positions) # Len(e.rotors) THEN [ok |-> FALSE, eng |-> e, heap |-> h]
  ELSE [ok |-> TRUE, eng |-> e, heap |-> SetPositionsLoop(h, e.rotors, positions, 1)]

\* The security levels Low, Medium, High and Extreme are 0 to 3; any other
\* value is treated as Low.
getSecurityConfig(level) ==
  IF level = 1 THEN [rotorCount |-> 5, plugboardPairs |-> 8]
  ELSE IF level = 2 THEN [rotorCount |-> 8, plugboardPairs |-> 15]
  ELSE IF level = 3 THEN [rotorCount |-> 12, plugboardPairs |-> 20]
  ELSE [rotorCount |-> 3, plugboardPairs |-> 2]

\* The rotor WithRandomSettings makes when the draws of RandomRotor and of
\* the position and the ring setting are those of d.
RandomRotorAt(id, alph, d) ==
  SetRingSetting(SetPosition(RandomRotor(id, alph, d.available, d.draws).val, d.position),
                 d.ringSetting)

RotorIDs == <<"R1", "R2", "R3", "R4", "R5", "R6", "R7", "R8", "R9", "R10", "R11", "R12">>

\* The plugboard of WithRandomSettings: at most size / 2 pairs are asked for.
RandomPlugboard(alph, plugboardPairs, available) ==
  IF plugboardPairs > 0
  THEN RandomPairs(NewPlugboard(alph),
                   IF plugboardPairs > alph.size \div 2 THEN alph.size \div 2
                   ELSE plugboardPairs,
                   available)
  ELSE [ok |-> TRUE, val |-> NewPlugboard(alph)]

\* WithRandomSettings(level) when the random draws come out as draws: one
\* record per rotor, the shuffle of the reflector and that of the plugboard.
\* The rotors go to the fresh addresses as.
WithRandomSettings(h, e, level, draws, as) ==
  IF e.alphabet = Nil THEN [ok |-> FALSE, eng |-> e, heap |-> h]
  ELSE IF ~RandomReflector("UKW", e.alphabet, draws.reflector).ok
       THEN [ok |-> FALSE, eng |-> e, heap |-> h]
  ELSE IF ~RandomPlugboard(e.alphabet, getSecurityConfig(level).plugboardPairs,
                           draws.plugboard).ok
       THEN [ok |-> FALSE, eng |-> e, heap |-> h]
  ELSE [ok |-> TRUE,
        heap |-> Store(h, as, [i \in 1..getSecurityConfig(level).rotorCount |->
                                  RandomRotorAt(RotorIDs[i], e.alphabet, draws.rotors[i])]),
        eng |-> [e EXCEPT
                   !.rotors = as,
                   !.reflector = RandomReflector("UKW", e.alphabet, draws.reflector).val,
                   !.plugboard = RandomPlugboard(e.alphabet,
                                                 getSecurityConfig(level).plugboardPairs,
                                                 draws.plugboard).val]]

\* New after its options have been applied: the required components, the
\* default plugboard, and the initial settings captured with GetSettings
\* (whose rotorSpecs array is at address a).
\* The end of New: settings is what GetSettings returned for the engine e1.
NewCaptured(e1, settings) ==
  IF ~settings.ok THEN [ok |-> FALSE]
  ELSE [ok |-> TRUE,
        specs |-> settings.specs,
        eng |-> [e1 EXCEPT !.initialSettings = settings.val]]

\* New once the engine e1 has its plugboard.
NewWithPlugboard(h, e1, a) == NewCaptured(e1, GetSettings(h, e1, a))

New(h, e, a) ==
  IF e.alphabet = Nil THEN [ok |-> FALSE]
  ELSE IF Len(e.rotors) = 0 THEN [ok |-> FALSE]
  ELSE IF e.reflector = Nil THEN [ok |-> FALSE]
  ELSE NewWithPlugboard(h, IF e.plugboard = Nil
                           THEN [e EXCEPT !.plugboard = NewPlugboard(e.alphabet)]
                           ELSE e, a)

(***************************************************************************)
(* package enigma: the convenience functions                               *)
(***************************************************************************)
\* The machine of a convenience function is its own: its rotors are in a
\* heap of its own and its arrays of rotor specs in a spec heap of its own.
NoMachine == [ok |-> FALSE, eng |-> Nil, heap |-> EmptyHeap, specHeap |-> EmptySpecHeap]

\* m is what New returned, its initial rotor specs at address a.
Machine(h, m, a) ==
  IF ~m.ok THEN NoMachine
  ELSE [ok |-> TRUE, eng |-> m.eng, heap |-> h,
        specHeap |-> [EmptySpecHeap EXCEPT ![a] = m.specs]]

\* New once both options of NewFromText were applied with the result r.
NewFromOptions(r, a) ==
  IF ~r.ok THEN NoMachine ELSE Machine(r.heap, New(r.heap, r.eng, a), a)

\* New after WithAlphabet returned r.
NewFromAlphabet(r, level, draws) ==
  IF ~r.ok THEN NoMachine
  ELSE NewFromOptions(WithRandomSettings(EmptyHeap, r.eng, level, draws,
                                         Alloc(getSecurityConfig(level).rotorCount, {})),
                      Alloc(1, {})[1])

\* NewFromText after AutoDetectFromText returned detectedAlphabet.
NewFromDetected(detectedAlphabet, level, draws) ==
  IF ~detectedAlphabet.ok THEN NoMachine
  ELSE NewFromAlphabet(WithAlphabet(ZeroEnigma, detectedAlphabet.val.runes), level, draws)

NewFromText(text, level, draws) ==
  IF Len(text) = 0 THEN NoMachine
  ELSE NewFromDetected(AutoDetectFromText(text), level, draws)

QuickFailed == [ok |-> FALSE, encrypted |-> <<>>, config |-> Nil]

\* The end of QuickEncrypt: config is what SaveSettingsToJSON returned before
\* the encryption and encrypted what Encrypt returned.
QuickEncrypted(config, encrypted) ==
  IF ~config.ok THEN QuickFailed
  ELSE IF ~encrypted.ok THEN QuickFailed
  ELSE [ok |-> TRUE, encrypted |-> encrypted.out, config |-> config.val]

\* QuickEncrypt after NewFromText returned machine.
QuickEncryptOn(text, machine) ==
  IF ~machine.ok THEN QuickFailed
  ELSE QuickEncrypted(SaveSettingsToJSON(machine.heap, machine.specHeap, machine.eng,
                                         Alloc(2, {})[2]),
                      Encrypt(machine.heap, machine.eng, text))

QuickEncrypt(text, level, draws) == QuickEncryptOn(text, NewFromText(text, level, draws))

\* DecryptWithConfig after NewFromJSON returned machine.
DecryptOn(encryptedText, machine) ==
  IF ~machine.ok THEN [ok |-> FALSE, out |-> <<>>]
  ELSE [ok |-> Decrypt(machine.heap, machine.eng, encryptedText).ok,
        out |-> Decrypt(machine.heap, machine.eng, encryptedText).out]

\* order is the order in which LoadSettings ranges over the plugboard map.
DecryptWithConfig(encryptedText, configJSON, order) ==
  DecryptOn(encryptedText,
            NewFromJSON(EmptyHeap, EmptySpecHeap, configJSON, Alloc(1, {})[1],
                        Alloc(Len(configJSON.rotor_specs), {}), order))

(***************************************************************************)
(* The inputs the callers draw from.                                       *)
(***************************************************************************)
\* "ABCD", "AB" and the two-byte symbols of the Greek "αβ"; Z is in no alphabet.
Latin4 == <<65, 66, 67, 68>>
Latin3 == <<65, 66, 67>>
Latin2 == <<65, 66>>
Greek2 == <<945, 946>>
Outside == <<90>>

RuneA == Latin4[1]
RuneB == Latin4[2]
RuneC == Latin4[3]
RuneD == Latin4[4]
RuneAlpha == Greek2[1]
RuneBeta == Greek2[2]
RuneZ == Outside[1]

AlphabetMenu == {Latin2, Latin4, Greek2, <<RuneA, RuneA>>}

AlphaOf(runes) == NewAlphabet(runes).val

\* Rotors, reflectors and plugboards a caller has built with the package
\* constructors and then positioned.
RotorI == NewRotor("I", AlphaOf(Latin4), RunesToString(<<RuneB, RuneD, RuneA, RuneC>>),
                   <<RuneB>>).val
RotorII == SetRingSetting(
             NewRotor("II", AlphaOf(Latin4), RunesToString(<<RuneC, RuneA, RuneD, RuneB>>),
                      <<RuneA, RuneC>>).val, 1)
RotorIII == SetPosition(
              NewRotor("III", AlphaOf(Latin4), RunesToString(<<RuneA, RuneD, RuneB, RuneC>>),
                       <<RuneD>>).val, 2)
RotorS == NewRotor("S", AlphaOf(Latin2), RunesToString(<<RuneB, RuneA>>), <<RuneB>>).val

ReflectorB == NewReflector("B", AlphaOf(Latin4),
                           RunesToString(<<RuneC, RuneD, RuneA, RuneB>>)).val
ReflectorS == NewReflector("S", AlphaOf(Latin2), RunesToString(<<RuneB, RuneA>>)).val

PlugAD == AddPair(NewPlugboard(AlphaOf(Latin4)), RuneA, RuneD).val
PlugGreek == AddPair(NewPlugboard(AlphaOf(Greek2)), RuneAlpha, RuneBeta).val

CustomMenu ==
  { [rotors |-> <<RotorIII, RotorII, RotorI>>, refl |-> ReflectorB, pb |-> Nil],
    [rotors |-> <<RotorII, RotorI>>, refl |-> ReflectorB, pb |-> PlugAD],
    [rotors |-> <<RotorS>>, refl |-> ReflectorS, pb |-> Nil],
    [rotors |-> <<RotorS>>, refl |-> ReflectorS, pb |-> PlugAD],
    [rotors |-> <<RotorS>>, refl |-> ReflectorS, pb |-> PlugGreek] }

SpecI == [ID |-> "I", ForwardMapping |-> RunesToString(<<RuneB, RuneD, RuneA, RuneC>>),
          Notches |-> <<RuneB>>, Position |-> 5, RingSetting |-> 0 - 1]
SpecII == [ID |-> "II", ForwardMapping |-> RunesToString(<<RuneC, RuneA, RuneD, RuneB>>),
           Notches |-> <<RuneA, RuneC>>, Position |-> 0, RingSetting |-> 1]
SpecGreek == [ID |-> "G", ForwardMapping |-> RunesToString(<<RuneBeta, RuneAlpha>>),
              Notches |-> <<RuneAlpha>>, Position |-> 1, RingSetting |-> 0]

RotorSpecMenu == { <<SpecI>>, <<SpecII, SpecI>> }

ReflectorSpecMenu ==
  { [ID |-> "B", Mapping |-> RunesToString(<<RuneC, RuneD, RuneA, RuneB>>)],
    [ID |-> "X", Mapping |-> RunesToString(<<RuneB, RuneC, RuneD, RuneA>>)] }

PairsAB == [r \in {RuneA, RuneB} |-> IF r = RuneA THEN RuneB ELSE RuneA]
PairsGreek == [r \in {RuneAlpha, RuneBeta} |-> IF r = RuneAlpha THEN RuneBeta ELSE RuneAlpha]
PairsBad == [r \in {RuneA} |-> RuneB]

PlugboardPairsMenu == {PairsAB, PairsBad}

PositionMenu == { <<5>>, <<0 - 1, 6>>, <<0, 3, 2>> }

\* Settings values a caller writes by hand; specs is the content of the
\* RotorSpecs slice.
HandSettings(alphabet, specs, mapping, pairs, current) ==
  [specs |-> specs,
   val |-> [SchemaVersion |-> 1, Alphabet |-> alphabet, RotorSpecs |-> 0,
            ReflectorSpec |-> [ID |-> "B", Mapping |-> RunesToString(mapping)],
            PlugboardPairs |-> pairs, CurrentRotorPositions |-> current]]

SettingsMenu ==
  { HandSettings(Latin4, <<SpecII, SpecI>>, <<RuneC, RuneD, RuneA, RuneB>>, PairsAB, <<>>),
    HandSettings(Latin4, <<SpecII, SpecI>>, <<RuneC, RuneD, RuneA, RuneB>>, EmptyMap, <<2, 3>>),
    HandSettings(Latin4, <<SpecII, SpecI>>, <<RuneC, RuneD, RuneA, RuneB>>, EmptyMap, <<2>>),
    HandSettings(Greek2, <<SpecGreek>>, <<RuneBeta, RuneAlpha>>, PairsGreek, <<0>>),
    HandSettings(Latin2, <<>>, <<RuneB, RuneA>>, EmptyMap, <<>>),
    HandSettings(Latin2, <<SpecI>>, <<RuneB, RuneA>>, EmptyMap, <<>>),
    HandSettings(Latin2, <<>>, <<RuneA, RuneB>>, EmptyMap, <<>>) }

\* The texts a caller passes to an engine: the strings of at most MaxLen
\* symbols of its alphabet, and strings with a symbol outside of it.
TextsOver(alph) ==
  {RunesToString(t) : t \in SeqsUpTo(Range(alph.runes), MaxLen)}

BadTexts(alph) ==
  LET a == alph.runes[1]
  IN  {RunesToString(t) : t \in {<<RuneZ>>, <<a, RuneZ>>, <<RuneZ, a>>}}

(***************************************************************************)
(* The state machine.  eng is the caller's engine, cl a second engine (a   *)
(* clone, or one restored from settings), st a settings value and js a     *)
(* JSON text the caller holds.  phase follows New: "building" while the    *)
(* options are applied, then "ready", or "failed" when New returned an     *)
(* error.  last, pre, rt and base are history variables: the last call     *)
(* and its result, the engine and rotors before it, the progress of an     *)
(* encrypt / reset / decrypt round trip, and each engine's rotor positions *)
(* when it was built or loaded.  A history variable that is Nil is not     *)
(* recorded.                                                               *)
(***************************************************************************)
Eng(m) == IF m = "e" THEN eng ELSE cl

LiveRotors(e, c) ==
  (IF e = Nil THEN {} ELSE Range(e.rotors)) \cup (IF c = Nil THEN {} ELSE Range(c.rotors))

LiveSpecs(e, c, s) ==
  ((IF e = Nil THEN {} ELSE {e.initialSettings.RotorSpecs})
     \cup (IF c = Nil THEN {} ELSE {c.initialSettings.RotorSpecs})
     \cup (IF s = Nil THEN {} ELSE {s.RotorSpecs})) \ {0}

FreshRotors(n) == Alloc(n, LiveRotors(eng, cl))

FreshSpecs == Alloc(1, LiveSpecs(eng, cl, st))[1]

\* had: the positions right after the build or load; decl: the positions the
\* build or load declares as the starting point; moved: the engine has
\* processed a symbol since it was built, loaded or reset.
NoBase == [had |-> <<>>, decl |-> <<>>, moved |-> FALSE]

BaseAt(had, decl) == [had |-> had, decl |-> decl, moved |-> FALSE]

NoOp == [op |-> "none", tgt |-> "e", in |-> <<>>, out |-> <<>>, ok |-> TRUE]

RtIdle == [stage |-> 0, t |-> <<>>, c |-> <<>>, r |-> <<>>, ok |-> TRUE]

InitBase ==
  /\ eng = ZeroEnigma
  /\ cl = Nil
  /\ st = Nil
  /\ js = Nil
  /\ rotHeap = EmptyHeap
  /\ specHeap = EmptySpecHeap
  /\ phase = "building"
  /\ nopts = 0
  /\ base = [e |-> NoBase, c |-> NoBase]
  /\ part = Nil

Init ==
  /\ InitBase
  /\ last = NoOp
  /\ pre = [pos |-> <<>>]
  /\ rt = Nil

Track(op, m, in, out, ok) ==
  /\ last' = IF last = Nil THEN Nil
             ELSE [op |-> op, tgt |-> m, in |-> in, out |-> out, ok |-> ok]
  /\ pre' = IF pre = Nil THEN Nil ELSE [pos |-> GetCurrentRotorPositions(rotHeap, Eng(m))]

\* The non-negative residue of p modulo n.
Residue(p, n) == ((p % n) + n) % n

\* An option was applied: the engine under construction and the heap after it.
Applied(r, h) ==
  IF r.ok
  THEN /\ eng' = r.eng
       /\ rotHeap' = Collect(h, LiveRotors(r.eng, cl))
       /\ phase' = "building"
       /\ nopts' = nopts + 1
  ELSE /\ eng' = Nil
       /\ rotHeap' = Collect(rotHeap, LiveRotors(Nil, cl))
       /\ phase' = "failed"
       /\ nopts' = nopts

Building == phase = "building" /\ nopts < MaxOpts

OptAlphabet(runes) ==
  /\ Building
  /\ Applied(WithAlphabet(eng, runes), rotHeap)
  /\ UNCHANGED <<cl, st, js, specHeap, last, pre, rt, base, part>>

OptCustomComponents(c) ==
  /\ Building
  /\ LET r == WithCustomComponents(rotHeap, eng, c.rotors, c.refl, c.pb,
                                   FreshRotors(Len(c.rotors)))
     IN  Applied(r, r.heap)
  /\ UNCHANGED <<cl, st, js, specHeap, last, pre, rt, base, part>>

OptRotorConfiguration(specs) ==
  /\ Building
  /\ LET r == WithRotorConfiguration(rotHeap, eng, specs, FreshRotors(Len(specs)))
     IN  Applied(r, r.heap)
  /\ UNCHANGED <<cl, st, js, specHeap, last, pre, rt, base, part>>

OptReflectorConfiguration(spec) ==
  /\ Building
  /\ Applied(WithReflectorConfiguration(eng, spec), rotHeap)
  /\ UNCHANGED <<cl, st, js, specHeap, last, pre, rt, base, part>>

OptPlugboardConfiguration(pairs) ==
  /\ Building
  /\ \E order \in KeyOrders(pairs) :
        Applied(WithPlugboardConfiguration(eng, pairs, order), rotHeap)
  /\ UNCHANGED <<cl, st, js, specHeap, last, pre, rt, base, part>>

OptRotorPositions(positions) ==
  /\ Building
  /\ LET r == WithRotorPositions(rotHeap, eng, positions)
     IN  Applied(r, r.heap)
  /\ UNCHANGED <<cl, st, js, specHeap, last, pre, rt, base, part>>

\* New returns r: the engine, or an error.
NewReturned(r, a) ==
  IF r.ok
  THEN /\ eng' = r.eng
       /\ specHeap' = CollectSpecs([specHeap EXCEPT ![a] = r.specs],
                                   LiveSpecs(r.eng, cl, st))
       /\ phase' = "ready"
       /\ base' = [base EXCEPT !.e = BaseAt(GetCurrentRotorPositions(rotHeap, r.eng),
                                              GetCurrentRotorPositions(rotHeap, r.eng))]
       /\ UNCHANGED rotHeap
  ELSE /\ eng' = Nil
       /\ rotHeap' = Collect(rotHeap, LiveRotors(Nil, cl))
       /\ phase' = "failed"
       /\ UNCHANGED <<specHeap, base>>

NewReturns ==
  /\ phase = "building"
  /\ NewReturned(New(rotHeap, eng, FreshSpecs), FreshSpecs)
  /\ UNCHANGED <<cl, st, js, nopts, last, pre, rt, part>>

\* The baseline a successful load declares: the spec positions.
DeclaredBase(e, specs) ==
  [i \in DOMAIN specs |-> Residue(specs[i].Position, e.alphabet.size)]

\* NewFromSettings returns r for the settings sv, whose rotor specs are in sh.
FromSettingsReturned(r, sv, sh) ==
  /\ st' = sv
  /\ IF r.ok
     THEN /\ eng' = r.eng
          /\ rotHeap' = Collect(r.heap, LiveRotors(r.eng, cl))
          /\ specHeap' = CollectSpecs(sh, LiveSpecs(r.eng, cl, sv))
          /\ phase' = "ready"
          /\ base' = [base EXCEPT !.e =
                         BaseAt(GetCurrentRotorPositions(r.heap, r.eng),
                                DeclaredBase(r.eng, SpecsAt(sh, sv.RotorSpecs)))]
     ELSE /\ eng' = Nil
          /\ rotHeap' = Collect(rotHeap, LiveRotors(Nil, cl))
          /\ specHeap' = CollectSpecs(sh, LiveSpecs(Nil, cl, sv))
          /\ phase' = "failed"
          /\ UNCHANGED base

\* The settings sv of the caller, with their rotor specs in sh.
BuildFrom(sv, sh, n) ==
  \E order \in KeyOrders(sv.PlugboardPairs) :
    FromSettingsReturned(NewFromSettings(rotHeap, sh, sv, FreshRotors(n), order), sv, sh)

\* eng = NewFromSettings(s) for settings s the caller wrote, which it keeps in st.
BuildFromSettings(s) ==
  /\ phase = "building"
  /\ nopts = 0
  /\ BuildFrom([s.val EXCEPT !.RotorSpecs = FreshSpecs],
               [specHeap EXCEPT ![FreshSpecs] = s.specs], Len(s.specs))
  /\ UNCHANGED <<cl, js, nopts, last, pre, rt, part>>

NextBuild ==
  \/ \E runes \in AlphabetMenu : OptAlphabet(runes)
  \/ \E c \in CustomMenu : OptCustomComponents(c)
  \/ \E specs \in RotorSpecMenu : OptRotorConfiguration(specs)
  \/ \E spec \in ReflectorSpecMenu : OptReflectorConfiguration(spec)
  \/ \E pairs \in PlugboardPairsMenu : OptPlugboardConfiguration(pairs)
  \/ \E positions \in PositionMenu : OptRotorPositions(positions)
  \/ NewReturns
  \/ \E s \in SettingsMenu : BuildFromSettings(s)

(***************************************************************************)
(* The calls on a built engine.                                            *)
(***************************************************************************)
\* A call is made by a caller that holds no unread result: when the last
\* call is recorded, the caller reads it (Return) before it calls again.
Idle == IF last = Nil THEN TRUE ELSE last.op = "none"

Ready(m) == phase = "ready" /\ Eng(m) # Nil /\ Idle

\* The texts for each alphabet of the menu, computed once.
TextsLatin4 == TextsOver(AlphaOf(Latin4)) \cup BadTexts(AlphaOf(Latin4))
TextsLatin2 == TextsOver(AlphaOf(Latin2)) \cup BadTexts(AlphaOf(Latin2))
TextsGreek2 == TextsOver(AlphaOf(Greek2)) \cup BadTexts(AlphaOf(Greek2))

InputTexts(e) ==
  IF e.alphabet.runes = Latin4 THEN TextsLatin4
  ELSE IF e.alphabet.runes = Latin2 THEN TextsLatin2
  ELSE IF e.alphabet.runes = Greek2 THEN TextsGreek2
  ELSE TextsOver(e.alphabet) \cup BadTexts(e.alphabet)

\* The engine is at the positions Reset would put it at.
AtBaseline(h, sh, e) ==
  GetCurrentRotorPositions(Reset(h, sh, e), e) = GetCurrentRotorPositions(h, e)

\* The round trip: encrypt from the baseline, reset, decrypt the result.
RtAfter(op, m, in, res) ==
  IF rt = Nil THEN Nil
  ELSE IF m # "e" THEN RtIdle
  ELSE IF op = "Encrypt" /\ AtBaseline(rotHeap, specHeap, eng)
       THEN [stage |-> 1, t |-> in, c |-> res.out, r |-> <<>>, ok |-> res.ok]
  ELSE IF op = "Reset" /\ rt.stage = 1 THEN [rt EXCEPT !.stage = 2]
  ELSE IF op = "Decrypt" /\ rt.stage = 2 /\ in = rt.c
       THEN [rt EXCEPT !.stage = 3, !.r = res.out, !.ok = rt.ok /\ res.ok]
  ELSE RtIdle

\* Whether the engine m has processed a symbol since its baseline, after the
\* call op(in): a text that passes validation is processed.
MovedAfter(op, m, in, moved) ==
  IF op = "Reset" THEN FALSE
  ELSE IF op = "SetRotorPositions" THEN moved
  ELSE moved \/ (in # <<>> /\ ValidateString(Eng(m).alphabet, in))

\* The call op(in) on the engine m returned res, leaving the rotors in h.
Called(op, m, in, res, h) ==
  /\ rotHeap' = h
  /\ Track(op, m, in, res.out, res.ok)
  /\ rt' = RtAfter(op, m, in, res)
  /\ base' = [base EXCEPT ![m].moved = MovedAfter(op, m, in, @)]
  /\ UNCHANGED <<eng, cl, st, js, specHeap, phase, nopts, part>>

\* The same, for a call that returns the heap with its result.
CalledText(op, m, in, res) == Called(op, m, in, res, res.heap)

DoEncrypt(m) ==
  /\ Ready(m)
  /\ \E text \in InputTexts(Eng(m)) :
       CalledText("Encrypt", m, text, Encrypt(rotHeap, Eng(m), text))

DoDecrypt(m) ==
  /\ Ready(m)
  /\ \E text \in InputTexts(Eng(m)) :
       CalledText("Decrypt", m, text, Decrypt(rotHeap, Eng(m), text))

DoReset(m) ==
  /\ Ready(m)
  /\ Called("Reset", m, <<>>, [ok |-> TRUE, out |-> <<>>],
            Reset(rotHeap, specHeap, Eng(m)))

\* SetRotorPositions returned res.
CalledSet(m, positions, res) ==
  Called("SetRotorPositions", m, positions, [ok |-> res.ok, out |-> <<>>], res.heap)

DoSetRotorPositions(m) ==
  /\ Ready(m)
  /\ \E positions \in PositionMenu :
       CalledSet(m, positions, SetRotorPositions(rotHeap, Eng(m), positions))

NextCalls(m) ==
  \/ DoEncrypt(m)
  \/ DoDecrypt(m)
  \/ DoReset(m)
  \/ DoSetRotorPositions(m)

\* The caller has read the result of its last call.
Return ==
  /\ last # Nil
  /\ last.op # "none"
  /\ last' = NoOp
  /\ pre' = [pos |-> <<>>]
  /\ UNCHANGED <<eng, cl, st, js, rotHeap, specHeap, phase, nopts, rt, base, part>>

(***************************************************************************)
(* Capture and restore: the caller captures the settings of eng (or exports *)
(* them to JSON) and builds the second engine cl from them.                 *)
(***************************************************************************)
\* GetSettings returned r, its rotor specs at a: the caller keeps it in st.
Captured(r, a) ==
  /\ st' = IF r.ok THEN r.val ELSE Nil
  /\ specHeap' = IF r.ok
                 THEN CollectSpecs([specHeap EXCEPT ![a] = r.specs],
                                   LiveSpecs(eng, cl, r.val))
                 ELSE CollectSpecs(specHeap, LiveSpecs(eng, cl, Nil))
  /\ phase' = IF r.ok THEN "captured" ELSE "failed"
  /\ Track("GetSettings", "e", <<>>, <<>>, r.ok)
  /\ UNCHANGED <<eng, cl, js, rotHeap, nopts, rt, base, part>>

DoGetSettings ==
  /\ Ready("e")
  /\ Captured(GetSettings(rotHeap, eng, FreshSpecs), FreshSpecs)

\* SaveSettingsToJSON returned r: the caller keeps the JSON in js.
Exported(r) ==
  /\ js' = IF r.ok THEN r.val ELSE Nil
  /\ phase' = IF r.ok THEN "exported" ELSE "failed"
  /\ Track("SaveSettingsToJSON", "e", <<>>, <<>>, r.ok)
  /\ UNCHANGED <<eng, cl, st, rotHeap, specHeap, nopts, rt, base, part>>

DoSaveSettingsToJSON ==
  /\ Ready("e")
  /\ Exported(SaveSettingsToJSON(rotHeap, specHeap, eng, FreshSpecs))

\* The second engine r.eng was built by the call op, its rotor specs in sh.
Restored(op, r, sh) ==
  /\ cl' = IF r.ok THEN r.eng ELSE Nil
  /\ rotHeap' = IF r.ok THEN Collect(r.heap, LiveRotors(eng, r.eng))
                ELSE Collect(rotHeap, LiveRotors(eng, Nil))
  /\ specHeap' = IF r.ok THEN CollectSpecs(sh, LiveSpecs(eng, r.eng, st))
                 ELSE CollectSpecs(specHeap, LiveSpecs(eng, Nil, st))
  /\ phase' = "restored"
  /\ base' = [base EXCEPT !.c =
                IF r.ok
                THEN BaseAt(GetCurrentRotorPositions(r.heap, r.eng),
                            DeclaredBase(r.eng, SpecsAt(sh, r.eng.initialSettings.RotorSpecs)))
                ELSE NoBase]
  /\ last' = [op |-> op, tgt |-> "c", in |-> <<>>, out |-> <<>>, ok |-> r.ok]
  /\ pre' = [pos |-> <<>>]
  /\ UNCHANGED <<eng, st, js, nopts, rt, part>>

\* cl = NewFromSettings(st), right after st was captured.
DoNewFromSettings ==
  /\ phase = "captured"
  /\ \E order \in KeyOrders(st.PlugboardPairs) :
       Restored("NewFromSettings",
                NewFromSettings(rotHeap, specHeap, st,
                                FreshRotors(Len(SpecsAt(specHeap, st.RotorSpecs))), order),
                specHeap)

\* The orders in which LoadSettings may range over the plugboard pairs of u.
OrdersOf(u) == IF u.ok THEN KeyOrders(u.val.PlugboardPairs) ELSE {<<>>}

\* The rotors NewFromJSON allocates for the settings u.
RotorsFor(u) == FreshRotors(IF u.ok THEN Len(u.specs) ELSE 0)

\* cl = NewFromJSON(js) once json.Unmarshal returned u.
Imported(r) == Restored("NewFromJSON", r, r.specHeap)

DoNewFromJSON ==
  /\ phase = "exported"
  /\ \E order \in OrdersOf(UnmarshalJSON(js, FreshSpecs)) :
       Imported(NewFromJSON(rotHeap, specHeap, js, FreshSpecs,
                            RotorsFor(UnmarshalJSON(js, FreshSpecs)), order))

\* The positions a caller writes into a rotor spec.
SpecPositionMenu == 0..1

\* The caller assigns s.RotorSpecs[i].Position = pos in the settings st it
\* holds, after the second engine was built.
DoSetSpecPosition ==
  /\ phase = "restored"
  /\ Idle
  /\ st # Nil
  /\ \E i \in DOMAIN SpecsAt(specHeap, st.RotorSpecs), pos \in SpecPositionMenu :
       /\ specHeap' = [specHeap EXCEPT ![st.RotorSpecs][i].Position = pos]
       /\ last' = [op |-> "SetSpecPosition", tgt |-> "s", in |-> <<i, pos>>, out |-> <<>>,
                   ok |-> TRUE]
       /\ UNCHANGED <<eng, cl, st, js, rotHeap, phase, nopts, pre, rt, base, part>>

NextSettings ==
  \/ DoGetSettings
  \/ DoNewFromSettings
  \/ DoSaveSettingsToJSON
  \/ DoNewFromJSON
  \/ DoSetSpecPosition

Next == NextBuild \/ NextCalls("e") \/ Return

Spec == Init /\ [][Next]_vars

(***************************************************************************)
(* Cloning: cl = eng.Clone(), and then calls on either engine.             *)
(***************************************************************************)
\* Clone returned r.
Cloned(r) ==
  /\ cl' = r.val
  /\ rotHeap' = r.heap
  /\ base' = [base EXCEPT !.c = base.e]
  /\ Track("Clone", "e", <<>>, <<>>, TRUE)
  /\ UNCHANGED <<eng, st, js, specHeap, phase, nopts, rt, part>>

DoClone ==
  /\ Ready("e")
  /\ cl = Nil
  /\ Len(eng.rotors) <= MaxCloneRotors
  /\ Cloned(Clone(rotHeap, eng, FreshRotors(Len(eng.rotors))))

NextWithClone == Next \/ DoClone \/ NextCalls("c")

SpecClone == Init /\ [][NextWithClone]_vars

\* The core with capture and restore.
NextWithSettings == Next \/ NextSettings

SpecSettings == Init /\ [][NextWithSettings]_vars

\* The round trips alone: no call is recorded, the round trip is.
InitRT ==
  /\ InitBase
  /\ last = Nil
  /\ pre = Nil
  /\ rt = RtIdle

NextRT == NextBuild \/ NextCalls("e")

SpecRT == InitRT /\ [][NextRT]_vars

(***************************************************************************)
(* Loading settings into a configured engine, and imports of settings the  *)
(* caller wrote: some that LoadSettings rejects at each of its stages, and *)
(* one of another schema version.                                          *)
(***************************************************************************)
LoadSettingsFromUnmarshalled(h, sh, e, u, a, as, order) ==
  IF ~u.ok THEN [ok |-> FALSE, eng |-> e, heap |-> h, specHeap |-> sh]
  ELSE [specHeap |-> [sh EXCEPT ![a] = u.specs]]
       @@ LoadSettings(h, [sh EXCEPT ![a] = u.specs], e, u.val, as, order)

LoadSettingsFromJSON(h, sh, e, jsonData, a, as, order) ==
  LoadSettingsFromUnmarshalled(h, sh, e, UnmarshalJSON(jsonData, a), a, as, order)

LoadMenu ==
  SettingsMenu \cup
  { HandSettings(<<RuneA, RuneA>>, <<SpecII, SpecI>>, <<RuneC, RuneD, RuneA, RuneB>>,
                 EmptyMap, <<>>),
    HandSettings(Latin4, <<SpecII, SpecI>>, <<RuneC, RuneD, RuneA, RuneB>>, PairsBad, <<>>),
    HandSettings(Latin4, <<SpecII, SpecI>>, <<RuneC, RuneD, RuneA, RuneB>>, EmptyMap,
                 <<5, 0 - 1>>),
    [HandSettings(Latin4, <<SpecI>>, <<RuneC, RuneD, RuneA, RuneB>>, EmptyMap, <<>>)
       EXCEPT !.val.SchemaVersion = 2] }

\* The JSON text of the settings s.
JSONOf(s) ==
  MarshalJSON([EmptySpecHeap EXCEPT ![1] = s.specs], [s.val EXCEPT !.RotorSpecs = 1])

JSONMenu == {JSONOf(s) : s \in LoadMenu}

\* The load op(v...) on eng returned r, the rotor specs of its settings in sh;
\* v is the schema version of the settings.  A load that fails returns the
\* engine as far as it got.
Loaded(op, v, r, sh) ==
  /\ eng' = r.eng
  /\ rotHeap' = Collect(r.heap, LiveRotors(r.eng, cl))
  /\ specHeap' = CollectSpecs(sh, LiveSpecs(r.eng, cl, st))
  /\ base' = IF r.ok
             THEN [base EXCEPT !.e =
                     BaseAt(GetCurrentRotorPositions(r.heap, r.eng),
                            DeclaredBase(r.eng, SpecsAt(sh, r.eng.initialSettings.RotorSpecs)))]
             ELSE base
  /\ Track(op, "e", <<v>>, <<>>, r.ok)
  /\ UNCHANGED <<cl, st, js, phase, nopts, rt, part>>

\* eng.LoadSettings(&sv), the rotor specs of sv in sh.
LoadFrom(sv, sh, n) ==
  \E order \in KeyOrders(sv.PlugboardPairs) :
    Loaded("LoadSettings", sv.SchemaVersion,
           LoadSettings(rotHeap, sh, eng, sv, FreshRotors(n), order), sh)

DoLoadSettings ==
  /\ Ready("e")
  /\ \E s \in LoadMenu :
       LoadFrom([s.val EXCEPT !.RotorSpecs = FreshSpecs],
                [specHeap EXCEPT ![FreshSpecs] = s.specs], Len(s.specs))

\* eng.LoadSettingsFromJSON(j).
LoadedFromJSON(v, r) == Loaded("LoadSettingsFromJSON", v, r, r.specHeap)

DoLoadSettingsFromJSON ==
  /\ Ready("e")
  /\ \E j \in JSONMenu :
       \E order \in OrdersOf(UnmarshalJSON(j, FreshSpecs)) :
         LoadedFromJSON(j.schema_version,
                        LoadSettingsFromJSON(rotHeap, specHeap, eng, j, FreshSpecs,
                                             RotorsFor(UnmarshalJSON(j, FreshSpecs)), order))

\* NewFromJSON returned r for the JSON text j, which the caller keeps in js.
FromJSONReturned(r, j) ==
  /\ js' = j
  /\ IF r.ok
     THEN /\ eng' = r.eng
          /\ rotHeap' = Collect(r.heap, LiveRotors(r.eng, cl))
          /\ specHeap' = CollectSpecs(r.specHeap, LiveSpecs(r.eng, cl, st))
          /\ phase' = "ready"
          /\ base' = [base EXCEPT !.e =
                         BaseAt(GetCurrentRotorPositions(r.heap, r.eng),
                                DeclaredBase(r.eng, SpecsAt(r.specHeap,
                                                            r.eng.initialSettings.RotorSpecs)))]
     ELSE /\ eng' = Nil
          /\ rotHeap' = Collect(rotHeap, LiveRotors(Nil, cl))
          /\ specHeap' = CollectSpecs(specHeap, LiveSpecs(Nil, cl, st))
          /\ phase' = "failed"
          /\ UNCHANGED base

\* eng = NewFromJSON(j) for a JSON text j the caller wrote.
BuildFromJSON(j) ==
  /\ phase = "building"
  /\ nopts = 0
  /\ \E order \in OrdersOf(UnmarshalJSON(j, FreshSpecs)) :
       FromJSONReturned(NewFromJSON(rotHeap, specHeap, j, FreshSpecs,
                                    RotorsFor(UnmarshalJSON(j, FreshSpecs)), order), j)
  /\ UNCHANGED <<cl, st, nopts, last, pre, rt, part>>

NextLoad ==
  \/ \E s \in LoadMenu : BuildFromSettings(s)
  \/ \E j \in JSONMenu : BuildFromJSON(j)
  \/ DoLoadSettings
  \/ DoLoadSettingsFromJSON

NextWithLoad == NextBuild \/ NextLoad \/ DoReset("e") \/ Return

SpecLoad == Init /\ [][NextWithLoad]_vars

(***************************************************************************)
(* A component on its own: the caller makes a plugboard, a rotor or a      *)
(* reflector and calls its methods; part holds the component and last the  *)
(* call.                                                                   *)
(***************************************************************************)
IsPart(kind) == part # Nil /\ part.kind = kind

\* The call op(in) on the component returned: out is what it returned, val
\* the component after it.
PartCalled(op, in, out, ok, val) ==
  /\ part' = [part EXCEPT !.val = val]
  /\ last' = [op |-> op, tgt |-> "part", in |-> in, out |-> out, ok |-> ok]
  /\ UNCHANGED <<eng, cl, st, js, rotHeap, specHeap, phase, nopts, pre, rt, base>>

\* The component val of the given kind was made.
PartMade(kind, val) ==
  /\ part' = [kind |-> kind, val |-> val]
  /\ UNCHANGED <<eng, cl, st, js, rotHeap, specHeap, phase, nopts, last, pre, rt, base>>

PlugAlphabetMenu == {Latin2, Latin4, Greek2}

PlugRuneMenu == Range(Latin4) \cup {RuneAlpha, RuneZ}

PairsABCD ==
  [r \in Range(Latin4) |->
     IF r = RuneA THEN RuneB ELSE IF r = RuneB THEN RuneA ELSE IF r = RuneC THEN RuneD ELSE RuneC]

\* A and B name each other, C names A.
PairsABThenBad == [r \in {RuneA, RuneB, RuneC} |-> IF r = RuneB THEN RuneA ELSE IF r = RuneA THEN RuneB ELSE RuneA]

PairMapMenu == {EmptyMap, PairsAB, PairsGreek, PairsBad, PairsABCD, PairsABThenBad}

PairCountMenu == (0 - 1)..3

\* p, _ := plugboard.New(alph)
MakePlugboard ==
  /\ part = Nil
  /\ \E runes \in PlugAlphabetMenu : PartMade("plugboard", NewPlugboard(AlphaOf(runes)))

PlugboardReturned(op, in, r) == PartCalled(op, in, <<>>, r.ok, r.val)

DoAddPair ==
  /\ IsPart("plugboard")
  /\ \E r1, r2 \in PlugRuneMenu :
       PlugboardReturned("AddPair", <<r1, r2>>, AddPair(part.val, r1, r2))

DoRemovePair ==
  /\ IsPart("plugboard")
  /\ \E r \in PlugRuneMenu : PlugboardReturned("RemovePair", <<r>>, RemovePair(part.val, r))

DoClear ==
  /\ IsPart("plugboard")
  /\ PartCalled("Clear", <<>>, <<>>, TRUE, Clear(part.val))

DoRandomPairs ==
  /\ IsPart("plugboard")
  /\ \E n \in PairCountMenu :
       \E available \in Shuffles(part.val.size) :
         PlugboardReturned("RandomPairs", <<n>>, RandomPairs(part.val, n, available))

DoSetPairsFromMap ==
  /\ IsPart("plugboard")
  /\ \E pairs \in PairMapMenu :
       \E order \in KeyOrders(pairs) :
         PlugboardReturned("SetPairsFromMap", pairs, SetPairsFromMap(part.val, pairs, order))

NextPlugboard ==
  \/ MakePlugboard
  \/ DoAddPair
  \/ DoRemovePair
  \/ DoClear
  \/ DoRandomPairs
  \/ DoSetPairsFromMap

SpecPlugboard == Init /\ [][NextPlugboard]_vars

\* A constructor of a component returned r for the arguments in.
PartBuilt(kind, op, in, r) ==
  /\ part' = IF r.ok THEN [kind |-> kind, val |-> r.val] ELSE Nil
  /\ last' = [op |-> op, tgt |-> "part", in |-> in, out |-> <<>>, ok |-> r.ok]
  /\ UNCHANGED <<eng, cl, st, js, rotHeap, specHeap, phase, nopts, pre, rt, base>>

\* The forward mappings a caller passes over "ABCD": every string of four of
\* its letters, one that is too short and one with a letter outside it.
RotorMappingMenu ==
  {RunesToString(fr) : fr \in [1..Len(Latin4) -> Range(Latin4)]}
    \cup {RunesToString(Latin2), RunesToString(<<RuneA, RuneB, RuneC, RuneZ>>)}

RandomAlphabetMenu == {Latin2, Latin3, Greek2}

\* The positions and ring settings a caller passes.
OffsetMenu == (0 - 5)..5

\* r, err := rotor.NewRotor("I", alph, mapping, notches) over "ABCD"
MakeRotor ==
  /\ part = Nil
  /\ \E mapping \in RotorMappingMenu :
       PartBuilt("rotor", "NewRotor", mapping,
                 NewRotor("I", AlphaOf(Latin4), mapping, <<RuneB>>))

\* r, err := rotor.RandomRotor("random", alph)
MakeRandomRotor ==
  /\ part = Nil
  /\ \E runes \in RandomAlphabetMenu :
       \E available \in Shuffles(Len(runes)) :
         \E draws \in NotchDraws(Len(runes)) :
           PartBuilt("rotor", "RandomRotor", runes,
                     RandomRotor("random", AlphaOf(runes), available, draws))

\* The rotor specs a caller passes: the wiring of I or II over "ABCD" with any
\* position and ring setting of the menu.
RotorFromSpecMenu ==
  {[spec EXCEPT !.Position = pos, !.RingSetting = ring] :
     spec \in {SpecI, SpecII}, pos \in OffsetMenu, ring \in OffsetMenu}

\* r, err := rotor.CreateFromSpec(spec, alph) over "ABCD"
MakeRotorFromSpec ==
  /\ part = Nil
  /\ \E spec \in RotorFromSpecMenu :
       PartBuilt("rotor", "CreateFromSpec", spec, CreateFromSpec(spec, AlphaOf(Latin4)))

DoSetPosition ==
  /\ IsPart("rotor")
  /\ \E pos \in OffsetMenu :
       PartCalled("SetPosition", <<pos>>, <<>>, TRUE, SetPosition(part.val, pos))

DoSetRingSetting ==
  /\ IsPart("rotor")
  /\ \E ring \in OffsetMenu :
       PartCalled("SetRingSetting", <<ring>>, <<>>, TRUE, SetRingSetting(part.val, ring))

DoStep ==
  /\ IsPart("rotor")
  /\ PartCalled("Step", <<>>, <<>>, TRUE, Step(part.val))

\* The indices a caller passes: the valid ones and one on either side.
IndexMenu(size) == (0 - 1)..size

DoForward ==
  /\ IsPart("rotor")
  /\ \E i \in IndexMenu(part.val.size) :
       PartCalled("Forward", <<i>>, <<Forward(part.val, i)>>, TRUE, part.val)

DoBackward ==
  /\ IsPart("rotor")
  /\ \E i \in IndexMenu(part.val.size) :
       PartCalled("Backward", <<i>>, <<Backward(part.val, i)>>, TRUE, part.val)

NextRotor ==
  \/ MakeRotor
  \/ MakeRandomRotor
  \/ MakeRotorFromSpec
  \/ DoSetPosition
  \/ DoSetRingSetting
  \/ DoStep
  \/ DoForward
  \/ DoBackward

SpecRotor == Init /\ [][NextRotor]_vars

ReflectorAlphabetMenu == {Latin2, Latin3, Latin4, Greek2}

\* The mappings a caller passes over the alphabet runes: every string of as
\* many of its letters as it has, one that is a letter short and one with a
\* letter outside it.
ReflectorMappingMenu(runes) ==
  {RunesToString(mr) : mr \in [1..Len(runes) -> Range(runes)]}
    \cup {RunesToString(Tail(runes)), RunesToString(Tail(runes) \o Outside)}

\* What a constructor of a reflector was called with.
ReflectorArgs(runes, mapping) == [runes |-> runes, mapping |-> mapping]

\* r, err := reflector.NewReflector("B", alph, mapping)
MakeReflector ==
  /\ part = Nil
  /\ \E runes \in ReflectorAlphabetMenu :
       \E mapping \in ReflectorMappingMenu(runes) :
         PartBuilt("reflector", "NewReflector", ReflectorArgs(runes, mapping),
                   NewReflector("B", AlphaOf(runes), mapping))

\* r, err := reflector.CreateFromSpec(ReflectorSpec{"S", mapping}, alph)
MakeReflectorFromSpec ==
  /\ part = Nil
  /\ \E runes \in ReflectorAlphabetMenu :
       \E mapping \in ReflectorMappingMenu(runes) :
         PartBuilt("reflector", "CreateFromSpec", ReflectorArgs(runes, mapping),
                   ReflectorCreateFromSpec([ID |-> "S", Mapping |-> mapping], AlphaOf(runes)))

\* r, err := reflector.RandomReflector("random", alph)
MakeRandomReflector ==
  /\ part = Nil
  /\ \E runes \in ReflectorAlphabetMenu :
       \E available \in Shuffles(Len(runes)) :
         PartBuilt("reflector", "RandomReflector", ReflectorArgs(runes, <<>>),
                   RandomReflector("random", AlphaOf(runes), available))

DoReflect ==
  /\ IsPart("reflector")
  /\ \E i \in IndexMenu(part.val.size) :
       PartCalled("Reflect", <<i>>, <<Reflect(part.val, i)>>, TRUE, part.val)

NextReflector ==
  \/ MakeReflector
  \/ MakeReflectorFromSpec
  \/ MakeRandomReflector
  \/ DoReflect

SpecReflector == Init /\ [][NextReflector]_vars

(***************************************************************************)
(* RandomRotor step by step: the shuffle, then one iteration of the inner  *)
(* loop of the notch draws at a time.  While the draws go on, part holds   *)
(* the locals of the call.                                                 *)
(***************************************************************************)
DrawAlphabetMenu == {<<RuneA>>, Latin2, Latin3, Greek2}

\* The outcomes of rand.Int(rand.Reader, 3) + 1.
NotchCounts == 1..3

\* rotor.RandomRotor("random", alph) up to the loop of the notch draws.
StartRandomRotor ==
  /\ part = Nil
  /\ \E runes \in DrawAlphabetMenu :
       \E available \in Shuffles(Len(runes)) :
         \E numNotches \in NotchCounts :
           PartMade("drawing",
                    [alph |-> AlphaOf(runes),
                     runes |-> [i \in 1..Len(runes) |-> runes[available[i] + 1]],
                     numNotches |-> numNotches,
                     notches |-> <<>>,
                     notchPositions |-> {}])

\* The locals d of the call after pos was drawn: a position drawn before is
\* drawn again, a new one gives the next notch.
Drawn(d, pos) ==
  IF pos \in d.notchPositions THEN d
  ELSE [d EXCEPT !.notchPositions = @ \cup {pos},
                 !.notches = Append(@, d.runes[pos + 1])]

\* One iteration of the inner loop: pos is drawn.
DrawNotch ==
  /\ IsPart("drawing")
  /\ Len(part.val.notches) < part.val.numNotches
  /\ \E pos \in 0..(part.val.alph.size - 1) :
       PartMade("drawing", Drawn(part.val, pos))

\* The loops are over: return NewRotor(id, alph, string(runes), notches).
FinishRandomRotor ==
  /\ IsPart("drawing")
  /\ Len(part.val.notches) = part.val.numNotches
  /\ PartBuilt("rotor", "RandomRotor", part.val.alph.runes,
               NewRotor("random", part.val.alph, RunesToString(part.val.runes),
                        part.val.notches))

NextDraw == StartRandomRotor \/ DrawNotch \/ FinishRandomRotor

\* The call runs on: a step is taken whenever one can be.
SpecDraw == Init /\ [][NextDraw]_vars /\ WF_vars(NextDraw)

(***************************************************************************)
(* Alphabet detection.                                                     *)
(***************************************************************************)
\* The symbols of the texts handed to detection: two letters, the space, a
\* tab, a carriage return, a line feed, a control character and a Greek
\* letter.
DetectSymbols == {RuneA, RuneB, 32, 9, 13, 10, 1, RuneAlpha}

\* The longest text of DetectSymbols handed to detection.
MaxDetectLen == 3

\* The text of every printable ASCII symbol once, the space second: each is
\* one byte.
AllPrintable == [i \in 1..95 |-> IF i = 1 THEN 33 ELSE IF i = 2 THEN 32 ELSE 31 + i]

DetectTexts ==
  {RunesToString(t) : t \in SeqsUpTo(DetectSymbols, MaxDetectLen)}
    \cup {AllPrintable}

DoAutoDetect ==
  \E text \in DetectTexts :
    PartBuilt("alphabet", "AutoDetectFromText", text, AutoDetectFromText(text))

NextDetect == DoAutoDetect

SpecDetect == Init /\ [][NextDetect]_vars

(***************************************************************************)
(* The convenience functions: a caller encrypts a text with QuickEncrypt    *)
(* and hands what it returned to DecryptWithConfig.                        *)
(***************************************************************************)
\* The symbols of the texts: two letters, the space, a tab, a control
\* character and a Greek letter.
QuickSymbols == {RuneA, RuneB, 32, 9, 1, RuneAlpha}

QuickTexts == {RunesToString(t) : t \in SeqsUpTo(QuickSymbols, MaxLen)} \ {<<>>}

\* Low, Medium and High; the twelve rotors of Extreme do not fit the heap.
LevelMenu == {l \in 0..3 : getSecurityConfig(l).rotorCount <= MaxAddr}

\* Two outcomes of a shuffle of size indices: left as they are, and reversed.
ShuffleMenu(size) == {[i \in 1..size |-> i - 1], [i \in 1..size |-> size - i]}

\* The draws for one rotor: a shuffle, one notch, and the position and ring
\* setting both zero or both non-zero.
RotorDrawMenu(size) ==
  {[available |-> a, draws |-> <<0>>, position |-> pr[1], ringSetting |-> pr[2]] :
     a \in ShuffleMenu(size), pr \in {<<0, 0>>, <<size - 1, 1>>}}

\* The draws of WithRandomSettings that end: the first rotor's, those of the
\* other rotors, the reflector's and the plugboard's shuffle.
RandomMenu(size, rotorCount) ==
  {[rotors |-> [i \in 1..rotorCount |-> IF i = 1 THEN first ELSE rest],
    reflector |-> f, plugboard |-> g] :
     first \in RotorDrawMenu(size), rest \in RotorDrawMenu(size),
     f \in ShuffleMenu(size), g \in ShuffleMenu(size)}

\* QuickEncrypt(text, level) returned r to the caller.
QuickReturned(text, r) ==
  /\ rt' = [stage |-> 1, t |-> text, c |-> r.encrypted, r |-> <<>>, ok |-> r.ok]
  /\ js' = r.config
  /\ last' = [op |-> "QuickEncrypt", tgt |-> "none", in |-> text, out |-> r.encrypted,
              ok |-> r.ok]
  /\ UNCHANGED <<eng, cl, st, rotHeap, specHeap, phase, nopts, pre, base, part>>

\* The size of the alphabet detection returned; 2 when it returned none and
\* nothing is drawn.
DetectedSize(detectedAlphabet) ==
  IF detectedAlphabet.ok THEN detectedAlphabet.val.size ELSE 2

DoQuickEncrypt ==
  /\ rt = Nil
  /\ \E text \in QuickTexts, level \in LevelMenu :
       \E draws \in RandomMenu(DetectedSize(AutoDetectFromText(text)),
                               getSecurityConfig(level).rotorCount) :
         QuickReturned(text, QuickEncrypt(text, level, draws))

\* DecryptWithConfig(rt.c, js) returned r to the caller.
DecryptReturned(r) ==
  /\ rt' = [rt EXCEPT !.stage = 2, !.r = r.out, !.ok = r.ok]
  /\ last' = [op |-> "DecryptWithConfig", tgt |-> "none", in |-> rt.c, out |-> r.out,
              ok |-> r.ok]
  /\ UNCHANGED <<eng, cl, st, js, rotHeap, specHeap, phase, nopts, pre, base, part>>

DoDecryptWithConfig ==
  /\ rt # Nil
  /\ rt.stage = 1
  /\ rt.ok
  /\ \E order \in OrdersOf(UnmarshalJSON(js, Alloc(1, {})[1])) :
       DecryptReturned(DecryptWithConfig(rt.c, js, order))

NextQuick == DoQuickEncrypt \/ DoDecryptWithConfig

SpecQuick == Init /\ [][NextQuick]_vars

(***************************************************************************)
(* Two engines side by side: eng, its clone cl, and the calls, captures and *)
(* restores a caller makes on either, in any order.                        *)
(***************************************************************************)
SpecS == [ID |-> "S", ForwardMapping |-> RunesToString(<<RuneB, RuneA>>),
          Notches |-> <<RuneB>>, Position |-> 1, RingSetting |-> 0]

\* The settings the first engine is built from: one rotor over the Greek
\* letters with a plugged pair, and two rotors over "AB".
PairMenu ==
  { HandSettings(Greek2, <<SpecGreek>>, <<RuneBeta, RuneAlpha>>, PairsGreek, <<0>>),
    HandSettings(Latin2, <<SpecS, SpecS>>, <<RuneB, RuneA>>, PairsAB, <<0, 1>>) }

BuildPair == \E s \in PairMenu : BuildFromSettings(s)

\* s, err := m.GetSettings() returned r, its rotor specs at a: the caller
\* keeps s in st.
CapturedOf(m, r, a) ==
  /\ st' = IF r.ok THEN r.val ELSE st
  /\ specHeap' = IF r.ok
                 THEN CollectSpecs([specHeap EXCEPT ![a] = r.specs], LiveSpecs(eng, cl, r.val))
                 ELSE specHeap
  /\ nopts' = nopts + 1
  /\ Track("GetSettings", m, <<>>, <<>>, r.ok)
  /\ UNCHANGED <<eng, cl, js, rotHeap, phase, rt, base, part>>

\* After the build nopts counts the captures and restores, MaxOpts at most.
DoCapture(m) ==
  /\ Ready(m)
  /\ nopts < MaxOpts
  /\ CapturedOf(m, GetSettings(rotHeap, Eng(m), FreshSpecs), FreshSpecs)

\* err := m.LoadSettings(st) returned r.
RestoredOf(m, r) ==
  /\ eng' = IF m = "e" THEN r.eng ELSE eng
  /\ cl' = IF m = "c" THEN r.eng ELSE cl
  /\ rotHeap' = Collect(r.heap, IF m = "e" THEN LiveRotors(r.eng, cl)
                                ELSE LiveRotors(eng, r.eng))
  /\ specHeap' = CollectSpecs(specHeap, IF m = "e" THEN LiveSpecs(r.eng, cl, st)
                                        ELSE LiveSpecs(eng, r.eng, st))
  /\ base' = IF r.ok
             THEN [base EXCEPT ![m] =
                     BaseAt(GetCurrentRotorPositions(r.heap, r.eng),
                            DeclaredBase(r.eng, SpecsAt(specHeap, st.RotorSpecs)))]
             ELSE base
  /\ nopts' = nopts + 1
  /\ Track("LoadSettings", m, <<>>, <<>>, r.ok)
  /\ UNCHANGED <<st, js, phase, rt, part>>

DoRestore(m) ==
  /\ Ready(m)
  /\ nopts < MaxOpts
  /\ st # Nil
  /\ \E order \in KeyOrders(st.PlugboardPairs) :
       RestoredOf(m, LoadSettings(rotHeap, specHeap, Eng(m), st,
                                  FreshRotors(Len(SpecsAt(specHeap, st.RotorSpecs))), order))

NextPair ==
  \/ BuildPair
  \/ DoClone
  \/ NextCalls("e")
  \/ NextCalls("c")
  \/ DoCapture("e")
  \/ DoCapture("c")
  \/ DoRestore("e")
  \/ DoRestore("c")
  \/ Return

SpecPair == Init /\ [][NextPair]_vars

(***************************************************************************)
(* Properties.                                                             *)
(***************************************************************************)
Pos(m) == GetCurrentRotorPositions(rotHeap, Eng(m))

Processed == last # Nil /\ last.op \in {"Encrypt", "Decrypt"}

\* The last call processed exactly one symbol of the alphabet.
ProcessedOne ==
  /\ Processed
  /\ Len(StringToRunes(last.in)) = 1
  /\ Contains(Eng(last.tgt).alphabet, StringToRunes(last.in)[1])

\* The rotors as they were before the last call: only positions change.
PreHeap == SetPositionsLoop(rotHeap, Eng(last.tgt).rotors, pre.pos, 1)

\* C1: from the baseline positions, c = encrypt(t), reset(), decrypt(c)
\* returns exactly t, for every built engine and every text over its alphabet.
C1_RoundTrip ==
  (rt # Nil /\ rt.stage >= 1 /\ ValidateString(eng.alphabet, rt.t)) =>
     /\ rt.ok
     /\ rt.stage = 3 => rt.r = rt.t

\* C2: reciprocity: if processing the symbol a from a rotor-position state
\* yields b, processing b from the same state yields a.
C2_Reciprocity ==
  (ProcessedOne /\ last.ok) =>
     LET again == processText(PreHeap, Eng(last.tgt), last.out)
     IN  again.ok /\ again.out = last.in

C2_Witness ==
  /\ ProcessedOne
  /\ last.ok
  /\ last.out # last.in
  /\ Len(eng.rotors) = 3
  /\ DOMAIN eng.plugboard.mapping = {}

\* Every component of the engine has the size of the engine's alphabet, and
\* the plugboard is over that alphabet.
ComponentsAgree(h, e) ==
  /\ \A i \in 1..Len(e.rotors) : h[e.rotors[i]].size = e.alphabet.size
  /\ e.reflector.size = e.alphabet.size
  /\ e.plugboard.size = e.alphabet.size
  /\ e.plugboard.alphabet = e.alphabet

\* The rotors of the engine the last call was made on.
RotorAt(i) == rotHeap[Eng(last.tgt).rotors[i]]

NotchAt(i, p) == \E k \in DOMAIN RotorAt(i).notches : RotorAt(i).notches[k] = p

\* One position further on rotor i than before the last call.
Up(i) == (pre.pos[i] + 1) % RotorAt(i).size

C4_ErrorsLeaveState ==
  /\ (Processed /\ ~last.ok) => (Pos(last.tgt) = pre.pos /\ last.out = <<>>)
  /\ (Processed /\ last.in = <<>>) => (Pos(last.tgt) = pre.pos /\ last.ok)

\* The positions Reset would put the engine m at.
ResetPositions(m) ==
  GetCurrentRotorPositions(Reset(rotHeap, specHeap, Eng(m)), Eng(m))

\* A rotor apart from its position.
Wiring(r) == IF r = Nil THEN Nil ELSE [r EXCEPT !.position = 0]

\* The step is the call op on the engine m.
CallStep(op, m) == last # Nil /\ last.op = "none" /\ last'.op = op /\ last'.tgt = m

\* C5 as stated: reset puts every rotor at the position it had when the engine
\* was constructed or last loaded from settings.
C5_ResetToPositionsAtLoad ==
  (last # Nil /\ last.op = "Reset") => Pos(last.tgt) = base[last.tgt].had

\* C5, amended: after any sequence of encrypt, decrypt and setRotorPositions
\* calls, reset puts every rotor at the position it had when the engine was
\* constructed, or at the position its rotor spec declares (modulo the
\* alphabet size) in the settings last loaded; setRotorPositions never moves
\* that baseline, and reset changes nothing except rotor positions.
C5_ResetBaseline ==
  [][\A m \in {"e", "c"} :
       /\ CallStep("Reset", m) =>
            /\ Pos(m)' = base[m].decl
            /\ eng' = eng /\ cl' = cl /\ specHeap' = specHeap
            /\ base'[m].decl = base[m].decl
            /\ \A a \in Addrs : Wiring(rotHeap'[a]) = Wiring(rotHeap[a])
       /\ CallStep("SetRotorPositions", m) =>
            /\ ResetPositions(m)' = ResetPositions(m)
            /\ ResetPositions(m)' = base[m].decl
            /\ base'[m].decl = base[m].decl]_vars

\* Reset moved the rotors of an engine loaded from settings whose current
\* positions are not the positions of its rotor specs.
C5_Witness ==
  /\ last # Nil
  /\ last.op = "Reset"
  /\ pre.pos # Pos(last.tgt)
  /\ base[last.tgt].had # base[last.tgt].decl
  /\ Pos(last.tgt) = base[last.tgt].decl

\* C10: no self-encryption: processing a symbol s of the alphabet never yields s.
C10_NoSelfEncryption ==
  (ProcessedOne /\ last.ok) => last.out # last.in

\* The second engine was just built by the call op from what was captured
\* from eng in its present state.
JustRestored(op) == phase = "restored" /\ last.op = op

\* C6: r = restore(capture(e)) has the same alphabet size, rotor count,
\* plugboard pair count and current rotor positions as e, and produces the
\* same ciphertext as e for every text over the alphabet.
C6_SettingsRoundTrip ==
  JustRestored("NewFromSettings") =>
    /\ last.ok
    /\ GetAlphabetSize(cl) = GetAlphabetSize(eng)
    /\ GetRotorCount(cl) = GetRotorCount(eng)
    /\ GetPlugboardPairCount(cl) = GetPlugboardPairCount(eng)
    /\ Pos("c") = Pos("e")
    /\ \A text \in TextsOver(eng.alphabet) :
         /\ Encrypt(rotHeap, cl, text).ok = Encrypt(rotHeap, eng, text).ok
         /\ Encrypt(rotHeap, cl, text).out = Encrypt(rotHeap, eng, text).out

\* C7: if e has processed one or more symbols since its baseline, then
\* r = restore(capture(e)) starts at e's current rotor positions and r.reset()
\* returns r to the baseline positions that e.reset() would return to.
C7_ResetAfterRestore ==
  (JustRestored("NewFromSettings") /\ last.ok /\ base.e.moved) =>
    /\ Pos("c") = Pos("e")
    /\ ResetPositions("c") = ResetPositions("e")

\* C8: exporting an engine to JSON and importing that JSON succeeds and yields
\* an engine with the same alphabet size, rotor count and plugboard pair count.
C8_JSONRoundTrip ==
  JustRestored("NewFromJSON") =>
    /\ last.ok
    /\ GetAlphabetSize(cl) = GetAlphabetSize(eng)
    /\ GetRotorCount(cl) = GetRotorCount(eng)
    /\ GetPlugboardPairCount(cl) = GetPlugboardPairCount(eng)

Other(m) == IF m = "e" THEN "c" ELSE "e"

\* The call op(in) made on the engine m when it has the heap to itself.
Alone(op, m, in) ==
  IF op \in {"Encrypt", "Decrypt"}
  THEN processText(Collect(rotHeap, Range(Eng(m).rotors)), Eng(m), in)
  ELSE IF op = "Reset"
       THEN [ok |-> TRUE, out |-> <<>>,
             heap |-> Reset(Collect(rotHeap, Range(Eng(m).rotors)), specHeap, Eng(m))]
       ELSE [out |-> <<>>] @@
            SetRotorPositions(Collect(rotHeap, Range(Eng(m).rotors)), Eng(m), in)

CallOps == {"Encrypt", "Decrypt", "Reset", "SetRotorPositions"}

\* C9: after c = clone(e), every call on one machine gives the output and
\* leaves the rotor positions it would if the other machine did not exist,
\* and leaves the other machine's rotors and both reset baselines as they
\* were; right after the clone the two machines are at the same positions,
\* have the same baseline and give the same output for the same input.
C9_CloneIndependence ==
  [][/\ \A m \in {"e", "c"} : \A op \in CallOps :
          (cl # Nil /\ CallStep(op, m)) =>
            /\ last'.ok = Alone(op, m, last'.in).ok
            /\ last'.out = Alone(op, m, last'.in).out
            /\ Pos(m)' = GetCurrentRotorPositions(Alone(op, m, last'.in).heap, Eng(m))
            /\ Eng(Other(m))' = Eng(Other(m))
            /\ RotorsOf(rotHeap, Eng(Other(m)))' = RotorsOf(rotHeap, Eng(Other(m)))
            /\ ResetPositions(Other(m))' = ResetPositions(Other(m))
            /\ op # "Reset" => ResetPositions(m)' = ResetPositions(m)
     /\ CallStep("Clone", "e") =>
          /\ Pos("c")' = Pos("e")
          /\ Pos("e")' = Pos("e")
          /\ ResetPositions("c")' = ResetPositions("e")
          /\ \A text \in TextsOver(eng.alphabet) :
               /\ Encrypt(rotHeap', cl', text).ok = Encrypt(rotHeap, eng, text).ok
               /\ Encrypt(rotHeap', cl', text).out = Encrypt(rotHeap, eng, text).out]_vars

\* Both machines have been called since the clone, and stand at different
\* positions.
C9_Witness ==
  /\ cl # Nil
  /\ phase = "ready"
  /\ last.tgt = "c"
  /\ last.op = "Encrypt"
  /\ last.ok
  /\ Len(last.in) = 2
  /\ base.e.moved
  /\ Pos("c") # Pos("e")
  /\ Len(eng.rotors) = 2

\* An engine exists in eng.
Exists == phase \in {"ready", "captured", "exported", "restored"}

\* The rotors, the reflector and the plugboard of e have the size of e's
\* alphabet.
SizesAgree(h, e) ==
  /\ \A i \in 1..Len(e.rotors) : h[e.rotors[i]].size = e.alphabet.size
  /\ e.reflector.size = e.alphabet.size
  /\ e.plugboard.size = e.alphabet.size

\* C11: every engine that is successfully built or restored holds rotors, a
\* reflector and a plugboard whose size equals the size of its alphabet.
C11_SizesAgree ==
  /\ Exists => SizesAgree(rotHeap, eng)
  /\ cl # Nil => SizesAgree(rotHeap, cl)

\* C12: every engine that exists, built from options or restored from a
\* settings value or JSON, has at least one rotor.
C12_AtLeastOneRotor ==
  /\ Exists => Len(eng.rotors) >= 1
  /\ cl # Nil => Len(cl.rotors) >= 1

\* What a caller can observe of the engine e: its alphabet, its rotors with
\* their positions, its reflector, its plugboard, and the positions a reset
\* would put it at.
Observable(h, sh, e) ==
  [alphabet |-> e.alphabet,
   rotors |-> [i \in 1..Len(e.rotors) |-> h[e.rotors[i]]],
   reflector |-> e.reflector,
   plugboard |-> e.plugboard,
   baseline |-> GetCurrentRotorPositions(Reset(h, sh, e), e)]

LoadOps == {"LoadSettings", "LoadSettingsFromJSON"}

\* C13: a load of settings into a configured engine that fails leaves the
\* engine's alphabet, rotors, reflector, plugboard, current rotor positions and
\* reset baseline exactly as they were before the call.
C13_FailedLoadLeavesEngine ==
  [][\A op \in LoadOps :
       (CallStep(op, "e") /\ ~last'.ok) =>
          Observable(rotHeap', specHeap', eng') = Observable(rotHeap, specHeap, eng)]_vars

\* C20: every import, from a settings value or from JSON text, into a new or a
\* configured engine, fails when the schema version of the settings is not 1,
\* and then builds no engine and changes none.
C20_OtherSchemaVersionsFail ==
  [][/\ \A op \in LoadOps :
          (CallStep(op, "e") /\ last'.in # <<1>>) =>
             /\ ~last'.ok
             /\ Observable(rotHeap', specHeap', eng') = Observable(rotHeap, specHeap, eng)
     /\ (phase = "building" /\ st' # st /\ st'.SchemaVersion # 1) =>
           (phase' = "failed" /\ eng' = Nil)
     /\ (phase = "building" /\ js' # js /\ js'.schema_version # 1) =>
           (phase' = "failed" /\ eng' = Nil)]_vars

\* The calls of a plugboard that can return an error.
PlugboardOps == {"AddPair", "RemovePair", "RandomPairs", "SetPairsFromMap"}

\* C14: a plugboard call that returns an error (addPair, removePair,
\* randomPairs, setPairsFromMap) leaves the plugboard's set of pairs exactly
\* as it was before the call.
C14_FailedPlugboardCallKeepsPairs ==
  [][(IsPart("plugboard") /\ last'.op \in PlugboardOps /\ ~last'.ok) =>
        (part'.val.pairs = part.val.pairs /\ part'.val.mapping = part.val.mapping)]_vars

\* The plugboard p is a partial involution on the indices of its alphabet.
PartialInvolution(p) ==
  /\ \A i \in 0..(p.size - 1) : Process(p, Process(p, i)) = i
  /\ \A i \in DOMAIN p.pairs :
       /\ p.pairs[i] # i
       /\ Process(p, i) = p.pairs[i]
       /\ p.pairs[i] \in DOMAIN p.pairs
       /\ \A j \in DOMAIN p.pairs : p.pairs[j] = p.pairs[i] => j = i

\* C15: after any sequence of addPair, removePair, clear, randomPairs and
\* setPairsFromMap calls, successful or failing, the plugboard is a partial
\* involution: process(process(i)) = i for every valid index i, no paired
\* index maps to itself, and no index belongs to more than one pair.
C15_PartialInvolution == IsPart("plugboard") => PartialInvolution(part.val)

\* A setPairsFromMap call failed after it had added one pair.
C15_Witness ==
  /\ IsPart("plugboard")
  /\ last.op = "SetPairsFromMap"
  /\ ~last.ok
  /\ PairCount(part.val) = 1

\* The valid indices of the component c.
Indices(c) == 0..(c.size - 1)

\* C16: for every rotor the explicit or the random constructor returned, at
\* every position and every ring setting, forward and backward are mutual
\* inverses on all valid indices.
C16_ForwardBackwardInverse ==
  IsPart("rotor") =>
    \A i \in Indices(part.val) :
      /\ Backward(part.val, Forward(part.val, i)) = i
      /\ Forward(part.val, Backward(part.val, i)) = i

\* A randomly generated rotor, moved off position and ring setting 0 to
\* different values, sent an index forward to another index.
C16_Witness ==
  /\ IsPart("rotor")
  /\ part.val.id = "random"
  /\ part.val.position # part.val.ringSetting
  /\ part.val.ringSetting # 0
  /\ last.op = "Forward"
  /\ last.in[1] \in Indices(part.val)
  /\ last.out # last.in

\* The offset of the rotor r: its position less its ring setting.
Offset(r) == r.position - r.ringSetting

\* The wiring table t looked up at i - d, and d added to what it holds.
SubtractedThenAdded(t, n, d, i) == Residue(t[Residue(i - d, n) + 1] + d, n)

\* The wiring table t looked up at i + d, and d taken off what it holds.
AddedThenSubtracted(t, n, d, i) == Residue(t[Residue(i + d, n) + 1] - d, n)

\* C18 as stated: forward(i) = (F[(i - (p - r)) mod n] + (p - r)) mod n and
\* backward(i) = (Finv[(i - (p - r)) mod n] + (p - r)) mod n: the offset is
\* subtracted from the input before the lookup and added to the output.
C18_OffsetSubtractedThenAdded ==
  IsPart("rotor") =>
    \A i \in Indices(part.val) :
      /\ Forward(part.val, i) =
           SubtractedThenAdded(part.val.forwardMap, part.val.size, Offset(part.val), i)
      /\ Backward(part.val, i) =
           SubtractedThenAdded(part.val.backwardMap, part.val.size, Offset(part.val), i)

\* C18, amended: forward(i) = (F[(i + (p - r)) mod n] - (p - r)) mod n and
\* backward(i) = (Finv[(i + (p - r)) mod n] - (p - r)) mod n: the offset is
\* added to the input before the lookup and subtracted from the output.
C18_OffsetAddedThenSubtracted ==
  IsPart("rotor") =>
    \A i \in Indices(part.val) :
      /\ Forward(part.val, i) =
           AddedThenSubtracted(part.val.forwardMap, part.val.size, Offset(part.val), i)
      /\ Backward(part.val, i) =
           AddedThenSubtracted(part.val.backwardMap, part.val.size, Offset(part.val), i)

\* A rotor off its ring setting sent an index forward, to the index the one
\* order of the offset gives and not the one the other order gives.
C18_Witness ==
  /\ IsPart("rotor")
  /\ Offset(part.val) # 0
  /\ last.op = "Forward"
  /\ last.in[1] \in Indices(part.val)
  /\ last.out[1] =
       AddedThenSubtracted(part.val.forwardMap, part.val.size, Offset(part.val), last.in[1])
  /\ last.out[1] #
       SubtractedThenAdded(part.val.forwardMap, part.val.size, Offset(part.val), last.in[1])

\* The reflector r is an involution without fixed points on its indices.
FixedPointFreeInvolution(r) ==
  \A i \in Indices(r) :
    /\ Reflect(r, Reflect(r, i)) = i
    /\ Reflect(r, i) # i

\* The runes mr name, for each letter of the alphabet runes in turn, another
\* letter of it, which names the first back.
PairsLetters(runes, mr) ==
  /\ Len(mr) = Len(runes)
  /\ \A i \in DOMAIN mr :
       /\ mr[i] # runes[i]
       /\ \E j \in DOMAIN runes : runes[j] = mr[i] /\ mr[j] = runes[i]

ReflectorMakers == {"NewReflector", "CreateFromSpec", "RandomReflector"}

\* C17: every reflector a constructor returned (from a mapping, from a spec or
\* random) is a fixed-point-free involution; every mapping that is not one is
\* rejected, and so is every alphabet of odd size.
C17_ReflectorInvolution ==
  /\ IsPart("reflector") => FixedPointFreeInvolution(part.val)
  /\ (last.op \in {"NewReflector", "CreateFromSpec"}
        /\ ~PairsLetters(last.in.runes, StringToRunes(last.in.mapping))) => ~last.ok
  /\ (last.op \in ReflectorMakers /\ Len(last.in.runes) % 2 = 1) => ~last.ok

\* A random reflector over four letters reflected an index.
C17_Witness ==
  /\ IsPart("reflector")
  /\ part.val.id = "random"
  /\ part.val.size = Len(Latin4)
  /\ last.op = "Reflect"
  /\ last.in[1] \in Indices(part.val)
  /\ last.out # last.in

\* Rotor i moved during the last call and came to one of its notch positions.
ReachedNotch(i) == Pos(last.tgt)[i] # pre.pos[i] /\ NotchAt(i, Pos(last.tgt)[i])

\* C19: notch timing: when a rotor reaches one of its notch positions while a
\* symbol is processed, the rotor to its left does not advance on that symbol;
\* it advances on the following processed symbol, the one that finds the
\* rotor at the notch.
C19_NotchTiming ==
  ProcessedOne =>
    \A i \in 1..(Len(Eng(last.tgt).rotors) - 1) :
      /\ (ReachedNotch(i + 1) /\ ~NotchAt(i + 1, pre.pos[i + 1])) =>
            Pos(last.tgt)[i] = pre.pos[i]
      /\ NotchAt(i + 1, pre.pos[i + 1]) => Pos(last.tgt)[i] = Up(i)

\* The step is NewFromSettings on a settings value of the caller.
RestoreStep == phase = "building" /\ st' # st

\* The step is NewFromJSON on a JSON text of the caller.
ImportStep == phase = "building" /\ js' # js

\* The positions listed in current, each modulo the size of the alphabet of e.
Normalized(current, e) ==
  [i \in DOMAIN current |-> Residue(current[i], e.alphabet.size)]

\* The engine that NewFromSettings or NewFromJSON has just returned stands at
\* the positions listed in current.
RestoredAt(current) ==
  phase' = "ready" => GetCurrentRotorPositions(rotHeap', eng') = Normalized(current, eng')

\* C21 as stated: restore fails whenever the settings carry a list of current
\* rotor positions of any length other than the number of rotor specs; when
\* the lengths match, the restored engine stands at the positions listed,
\* modulo the alphabet size.
C21_PositionCountMustMatch ==
  [][/\ RestoreStep =>
          IF Len(st'.CurrentRotorPositions) # Len(SpecsAt(specHeap', st'.RotorSpecs))
          THEN phase' = "failed"
          ELSE RestoredAt(st'.CurrentRotorPositions)
     /\ ImportStep =>
          IF Len(js'.current_rotor_positions) # Len(js'.rotor_specs)
          THEN phase' = "failed"
          ELSE RestoredAt(js'.current_rotor_positions)]_vars

\* The positions the rotor specs declare.
Declared(specs) == [i \in DOMAIN specs |-> specs[i].Position]

\* What C21 holds of a restore from a list current and rotor specs specs.
PositionsRestored(current, specs) ==
  IF Len(current) = 0
  THEN RestoredAt(Declared(specs))
  ELSE IF Len(current) # Len(specs)
       THEN phase' = "failed"
       ELSE RestoredAt(current)

\* C21, amended: restore fails whenever the settings carry a non-empty list
\* of current rotor positions of a length other than the number of rotor
\* specs; an empty list is accepted and leaves each rotor at the position its
\* spec declares; when the lengths match, the restored engine stands at the
\* positions listed; all positions modulo the alphabet size.
C21_NonEmptyPositionCountMustMatch ==
  [][/\ RestoreStep =>
          PositionsRestored(st'.CurrentRotorPositions, SpecsAt(specHeap', st'.RotorSpecs))
     /\ ImportStep =>
          PositionsRestored(js'.current_rotor_positions,
                            [i \in DOMAIN js'.rotor_specs |->
                               [Position |-> js'.rotor_specs[i].position]])]_vars

\* An engine restored from settings that list the positions 5 and -1 for its
\* two rotors over four letters stands at 1 and 3.
C21_Witness ==
  /\ phase = "ready"
  /\ st # Nil
  /\ Len(st.CurrentRotorPositions) = Len(SpecsAt(specHeap, st.RotorSpecs))
  /\ \E i \in DOMAIN st.CurrentRotorPositions :
       st.CurrentRotorPositions[i] \notin 0..(eng.alphabet.size - 1)
  /\ last.op = "none"
  /\ Pos("e") = Normalized(st.CurrentRotorPositions, eng)

\* C22: random rotor construction terminates for every alphabet of size 1 or
\* more and every outcome of its random draws: once called, RandomRotor
\* returns.
C22_RandomRotorTerminates == IsPart("drawing") ~> (part = Nil \/ IsPart("rotor"))

\* The distinct symbols detection finds in the text.
Found(text) ==
  {r \in Range(PreprocessTextForAutoDetection(text)) : ~isControlCharacter(r)}

\* The lowest symbol from the space upwards that is no control character and
\* does not occur in the text.
LowestUnusedPrintable(text) ==
  LET used == Range(StringToRunes(text))
      free(p) == p \notin used /\ ~isControlCharacter(p)
  IN CHOOSE p \in 32..(66 + Len(text)) : free(p) /\ \A q \in 32..(p - 1) : ~free(q)

\* C25: when detection finds an odd number of distinct symbols, the alphabet
\* is those symbols in code-point order followed by one padding symbol, the
\* lowest symbol from the space upwards that is no control character and does
\* not occur in the text, and the size of the alphabet is even.
C25_PaddingIsLowestUnusedPrintable ==
  (last # Nil /\ last.op = "AutoDetectFromText" /\ Cardinality(Found(last.in)) % 2 = 1)
    => /\ last.ok
       /\ part.val.runes = Append(SortRunes(Found(last.in)), LowestUnusedPrintable(last.in))
       /\ part.val.size % 2 = 0

\* C23: QuickEncrypt succeeds on every text that is not empty, at every
\* security level, and DecryptWithConfig on the ciphertext and the
\* configuration it returned succeeds and gives the text back.
C23_QuickRoundTrip ==
  rt # Nil => /\ rt.ok
              /\ rt.stage = 2 => rt.r = rt.t

\* C24: after any steps, SetPosition and SetRingSetting calls with any
\* integers, and after creation from any rotor spec, the position and the
\* ring setting of a rotor lie in [0, size), and SetPosition(p) leaves the
\* position at the residue of p modulo size that is not negative.
C24_PositionAndRingNormalized ==
  IsPart("rotor") =>
    /\ part.val.position \in 0..(part.val.size - 1)
    /\ part.val.ringSetting \in 0..(part.val.size - 1)
    /\ last.op = "SetPosition" =>
         \E q \in (0 - 6)..6 : last.in[1] = q * part.val.size + part.val.position

\* A rotor was set to a negative position and stands above zero.
C24_Witness ==
  /\ IsPart("rotor")
  /\ last.op = "SetPosition"
  /\ last.in[1] < 0
  /\ part.val.position > 0

\* C27: a Settings value is never shared with an engine: when the caller
\* changes the position of a rotor spec in the settings it holds, which it
\* captured from the first engine and restored the second engine from, both
\* engines keep their components, their positions and their reset baseline.
C27_SettingsNotShared ==
  [][CallStep("SetSpecPosition", "s") =>
       \A m \in {"e", "c"} :
         Eng(m) # Nil =>
           Observable(rotHeap', specHeap', Eng(m)) = Observable(rotHeap, specHeap, Eng(m))]_vars

\* The rotors of the engine m, and nothing else.
OwnHeap(m) == Collect(rotHeap, Range(Eng(m).rotors))

\* m.LoadSettings(st) when m has the heap to itself, the plugboard map ranged
\* over in the given order.
LoadedAlone(m, order) ==
  LoadSettings(OwnHeap(m), specHeap, Eng(m), st,
               Alloc(Len(SpecsAt(specHeap, st.RotorSpecs)), Range(Eng(m).rotors)), order)

\* What the caller sees of the engine a load returned.
ObservableOf(r) == Observable(r.heap, specHeap, r.eng)

PairOps == CallOps \cup {"GetSettings", "LoadSettings"}

\* C26: two engines never interfere. In every interleaving of the calls,
\* captures and restores made on an engine and its clone, the two hold no
\* rotor in common, each operation on one engine returns what it returns
\* when that engine is alone and leaves that engine as it does then, and it
\* leaves all that can be observed of the other engine as it was.
C26_EnginesDoNotInterfere ==
  [][\A m \in {"e", "c"} : \A op \in PairOps :
       (cl # Nil /\ CallStep(op, m)) =>
         /\ Range(eng.rotors) \cap Range(cl.rotors) = {}
         /\ Range(eng.rotors)' \cap Range(cl.rotors)' = {}
         /\ Eng(Other(m))' = Eng(Other(m))
         /\ Observable(rotHeap', specHeap', Eng(Other(m)))
              = Observable(rotHeap, specHeap, Eng(Other(m)))
         /\ op \in CallOps =>
              /\ last'.ok = Alone(op, m, last'.in).ok
              /\ last'.out = Alone(op, m, last'.in).out
              /\ Eng(m)' = Eng(m)
              /\ Observable(rotHeap', specHeap', Eng(m))
                   = Observable(Alone(op, m, last'.in).heap, specHeap, Eng(m))
         /\ op = "GetSettings" =>
              /\ last'.ok = GetSettings(OwnHeap(m), Eng(m), st'.RotorSpecs).ok
              /\ st' = GetSettings(OwnHeap(m), Eng(m), st'.RotorSpecs).val
              /\ SpecsAt(specHeap', st'.RotorSpecs)
                   = GetSettings(OwnHeap(m), Eng(m), st'.RotorSpecs).specs
              /\ Eng(m)' = Eng(m)
              /\ Observable(rotHeap', specHeap', Eng(m)) = Observable(rotHeap, specHeap, Eng(m))
         /\ op = "LoadSettings" =>
              \E order \in KeyOrders(st.PlugboardPairs) :
                /\ last'.ok = LoadedAlone(m, order).ok
                /\ Observable(rotHeap', specHeap', Eng(m)')
                     = ObservableOf(LoadedAlone(m, order))]_vars

\* Both engines have moved, the clone was restored from settings and has been
\* called since, and the two stand at different positions.
C26_Witness ==
  /\ cl # Nil
  /\ phase = "ready"
  /\ nopts > 1
  /\ cl.initialSettings.RotorSpecs # eng.initialSettings.RotorSpecs
  /\ last.tgt = "c"
  /\ last.op = "Encrypt"
  /\ last.ok
  /\ base.e.moved
  /\ Pos("c") # Pos("e")
  /\ Len(eng.rotors) = 2

\* The number of symbols a call with this text processes: validation rejects
\* a text with a symbol outside the alphabet before any symbol is processed.
SymbolsProcessed(e, text) ==
  IF ValidateString(e.alphabet, text) THEN Len(StringToRunes(text)) ELSE 0

\* The positions the engine of the last call would be at had it been given
\* text instead, from the positions it was at before the call.
PosAfter(text) ==
  GetCurrentRotorPositions(processText(PreHeap, Eng(last.tgt), text).heap, Eng(last.tgt))

\* C28: the rotor positions after a text is processed depend only on the
\* positions before it and on the number of symbols processed, never on
\* which symbols: from the same state, every text of which as many symbols
\* are processed leaves the engine in the same rotor positions.
C28_PositionsIgnoreSymbols ==
  Processed =>
    \A text \in InputTexts(Eng(last.tgt)) :
      SymbolsProcessed(Eng(last.tgt), text) = SymbolsProcessed(Eng(last.tgt), last.in) =>
        PosAfter(text) = Pos(last.tgt)

\* Two symbols were processed on three rotors, and another text of two
\* symbols gives another output from the same state.
C28_Witness ==
  /\ Processed
  /\ last.ok
  /\ SymbolsProcessed(Eng(last.tgt), last.in) = 2
  /\ Len(Eng(last.tgt).rotors) = 3
  /\ Pos(last.tgt) # pre.pos
  /\ \E text \in InputTexts(Eng(last.tgt)) :
       /\ text # last.in
       /\ SymbolsProcessed(Eng(last.tgt), text) = 2
       /\ processText(PreHeap, Eng(last.tgt), text).out # last.out

\* The first k symbols of a text, and the symbols after them.
FirstSymbols(text, k) == RunesToString(SubSeq(StringToRunes(text), 1, k))

RestSymbols(text, k) ==
  RunesToString(SubSeq(StringToRunes(text), k + 1, Len(StringToRunes(text))))

\* encrypt(a) followed by encrypt(b) from the state before the last call.
InTwoCalls(a, b) ==
  LET first == Encrypt(PreHeap, Eng(last.tgt), a)
      second == Encrypt(first.heap, Eng(last.tgt), b)
  IN  [out |-> first.out \o second.out,
       pos |-> GetCurrentRotorPositions(second.heap, Eng(last.tgt))]

\* C29: processing is compositional: from any engine state and for any texts
\* a and b over the alphabet, encrypt(a) followed by encrypt(b) returns
\* outputs whose concatenation is the output of encrypt(a followed by b) from
\* that state, and both leave the engine in the same rotor positions.
C29_Compositional ==
  (last # Nil /\ last.op = "Encrypt" /\ ValidateString(Eng(last.tgt).alphabet, last.in)) =>
    \A k \in 0..Len(StringToRunes(last.in)) :
      /\ FirstSymbols(last.in, k) \o RestSymbols(last.in, k) = last.in
      /\ InTwoCalls(FirstSymbols(last.in, k), RestSymbols(last.in, k)).out = last.out
      /\ InTwoCalls(FirstSymbols(last.in, k), RestSymbols(last.in, k)).pos = Pos(last.tgt)

\* The indices the loop of processText produced in the last call.
OutIndices ==
  ProcessLoop(PreHeap, Eng(last.tgt),
              StringToIndices(Eng(last.tgt).alphabet, last.in).val, <<>>).out

\* C30: for every engine that can be built or restored and every text whose
\* symbols all belong to its alphabet, encrypt succeeds and returns exactly
\* one symbol of the alphabet per input symbol; no index outside [0, size)
\* is produced, and no error arises after a rotor has stepped.
C30_EncryptSucceeds ==
  (last # Nil /\ last.op = "Encrypt" /\ ValidateString(Eng(last.tgt).alphabet, last.in)) =>
    /\ last.ok
    /\ Len(StringToRunes(last.out)) = Len(StringToRunes(last.in))
    /\ ValidateString(Eng(last.tgt).alphabet, last.out)
    /\ \A k \in DOMAIN OutIndices : OutIndices[k] \in 0..(Eng(last.tgt).alphabet.size - 1)
    /\ ~last.ok => Pos(last.tgt) = pre.pos

====
